---- MODULE Spec2Model ----
(***************************************************************************)
(* Bars Player: lyric timeline, active-line resolver and the media-session *)
(* publish throttler of App.tsx, modelled as state machines.               *)
(*                                                                         *)
(* Time is in abstract clock units.  A setTimeout callback runs at its due *)
(* instant: other events of the same instant may run before it, but the    *)
(* clock does not pass a due timer.                                        *)
(***************************************************************************)
EXTENDS Integers, Sequences, FiniteSets, TLC

VARIABLES
    now,                            \* Date.now()
    unmounted,                      \* the App component has been unmounted
    currentMetadata,                \* useState<TrackMetadata | null>
    metadataRefreshIntervalMs,      \* useState, minimum gap between sends
    lastMetadataSentAtRef,          \* useRef(0)
    lastSentMetadataSignatureRef,   \* useRef<string | null>(null)
    pendingMetadataRef,             \* useRef<BluetoothMetadataPayload | null>
    metadataFlushTimerRef,          \* useRef<number | null>: id of the timer
    timers,                         \* the host's live setTimeout timers
    mediaSessionMetadata,           \* navigator.mediaSession.metadata
    lastSubmitted,                  \* history: the last candidate payload
    lastSubmittedAt,                \* history: when it was submitted
    coalesced,                      \* history: candidates stored since arming
    lastSend,                       \* history: the last actual send
    prevSend,                       \* history: the send before it
    lrcText,                        \* input of parseLrc
    lyrics,                         \* useState<LyricLine[]>: parseLrc's result
    currentMs,                      \* input of activeLyricIndex
    activeLyric,                    \* result of activeLyricIndex
    pc,                             \* position of the pure-function drivers
    fitText,                        \* buildFittingWindows: text
    fitMaxWidth,                    \* buildFittingWindows: maxWidthPx
    fitWindows,                     \* buildFittingWindows: the result
    scrollDwellStart,               \* useState(DEFAULT_SCROLL_DWELL_START)
    scrollDwellEnd,                 \* useState(DEFAULT_SCROLL_DWELL_END)
    scrollProfileHydrated,          \* useState(false)
    currentTime,                    \* useState(0): playback position, in ms
    minSongMetadataSeconds,         \* useState: the hold, in ms
    fieldMapping,                   \* useState(DEFAULT_FIELD_MAPPING)
    lyricWidthScale,                \* useState: the width scale, in tenths
    usesLyricsWindow,               \* the shouldUseLyricsWindow memo
    windowTexts,                    \* the lyricWindow memo
    composedPayload,                \* the publish effect's nextPayload
    currentTrackId,                 \* useState<string | null>: 0 is null
    audioTime,                      \* audio.currentTime, in ms
    loads,                          \* the playTrack calls in flight
    playsStarted,                   \* history: the playTrack calls so far
    lyricsTrack,                    \* history: the track lyrics was read for
    playedMs,                       \* history: time played since the start,
                                    \* counted up to the hold
    freshSubmitted,                 \* history: a candidate of the current
                                    \* track went to the throttler
    metadataRefreshIntervalHydrated,    \* useState(false)
    minSongMetadataSecondsHydrated,     \* useState(false)
    fieldMappingHydrated,               \* useState(false)
    submitted,                      \* history: the candidates submitted so far
    tracks,                         \* useState([]): the ids of the scanned tracks
    savedPlaybackSnapshot,          \* useState(null)
    savedPlaybackSnapshotHydrated,  \* useState(false)
    restoreInFlightRef,             \* useRef(false)
    restoredSnapshotTrackIdRef,     \* useRef(null); 0 stands for null
    restoreCalls,                   \* history: the playTrack calls of the
                                    \* restore effect
    restorePromises                 \* the calls whose promise is unsettled

throttleVars == <<now, unmounted, currentMetadata, metadataRefreshIntervalMs,
                  lastMetadataSentAtRef, lastSentMetadataSignatureRef,
                  pendingMetadataRef, metadataFlushTimerRef, timers,
                  mediaSessionMetadata, lastSubmitted, lastSubmittedAt,
                  coalesced, lastSend, prevSend>>

lrcVars == <<lrcText, lyrics, currentMs, activeLyric, pc>>

fitVars == <<fitText, fitMaxWidth, fitWindows>>

\* what the throttler and the timeline drivers leave alone
dwellVars == <<scrollDwellStart, scrollDwellEnd, scrollProfileHydrated>>

composeVars == <<currentTime, minSongMetadataSeconds, fieldMapping,
                 lyricWidthScale, usesLyricsWindow, windowTexts,
                 composedPayload>>

appVars == <<currentTrackId, audioTime, loads, playsStarted, lyricsTrack,
             playedMs, freshSubmitted>>

configVars == <<metadataRefreshIntervalHydrated, minSongMetadataSecondsHydrated,
                fieldMappingHydrated>>

orderVars == <<submitted>>

restoreVars == <<tracks, savedPlaybackSnapshot, savedPlaybackSnapshotHydrated,
                 restoreInFlightRef, restoredSnapshotTrackIdRef, restoreCalls,
                 restorePromises>>

restVars == <<fitVars, dwellVars, composeVars, appVars, configVars, orderVars,
              restoreVars>>

vars == <<throttleVars, lrcVars, restVars>>

\* null of a payload or metadata object, of a signature string, of a timer id
\* and of a history record
NullPayload == [null |-> TRUE]

NullSignature == <<>>

NullTimer == 0

NullSend == [null |-> TRUE]

Max(a, b) == IF a >= b THEN a ELSE b

Min(a, b) == IF a <= b THEN a ELSE b

----------------------------------------------------------------------------
(* Bounds and input domains of the throttler                               *)

MaxTime == 9

\* values the interval slider is moved between, in clock units
IntervalChoices == {2, 4}

\* Date.now() when the component mounts: far more than any interval after
\* the initial lastMetadataSentAtRef of 0
Epoch == 4

TrackMetadatas == { [title |-> "Song", artist |-> "Band", album |-> "LP"] }

\* composed payloads: static metadata, or lyric windows in the three slots
Payloads ==
    { [title |-> "Song", artist |-> "Band", album |-> "LP"],
      [title |-> " ",    artist |-> "la",   album |-> "di"],
      [title |-> "la",   artist |-> "di",   album |-> " "] }

\* JSON.stringify(payload): the three strings in key order
Signature(payload) == <<payload.title, payload.artist, payload.album>>

----------------------------------------------------------------------------
(* The publish throttler                                                   *)

\* window.setTimeout returns an id no live timer and no retained ref holds
FreshTimerId ==
    CHOOSE id \in 1..(Cardinality(timers) + 2) :
        /\ id # metadataFlushTimerRef
        /\ \A t \in timers : t.id # id

ClearTimeoutNone(id) == timers

\* window.clearTimeout(id)
ClearTimeout(id) == { t \in timers : t.id # id }

RecordSend(payload, kind, latest) ==
    /\ prevSend' = lastSend
    /\ lastSend' = [at |-> now, payload |-> payload, kind |-> kind,
                    latest |-> latest, coalesced |-> coalesced,
                    seq |-> IF lastSend = NullSend THEN 0 ELSE 1 - lastSend.seq]

publishPayload(payload, kind, latest) ==
    /\ mediaSessionMetadata' = payload
    /\ lastMetadataSentAtRef' = now
    /\ lastSentMetadataSignatureRef' = Signature(payload)
    /\ RecordSend(payload, kind, latest)

\* the media-session effect when currentMetadata is null
ClearMediaSession ==
    /\ timers' = IF metadataFlushTimerRef # NullTimer
                 THEN ClearTimeout(metadataFlushTimerRef) ELSE timers
    /\ metadataFlushTimerRef' = NullTimer
    /\ pendingMetadataRef' = NullPayload
    /\ mediaSessionMetadata' = IF lastSentMetadataSignatureRef # NullSignature
                               THEN NullPayload ELSE mediaSessionMetadata
    /\ lastSentMetadataSignatureRef' = NullSignature
    /\ coalesced' = 0
    /\ UNCHANGED <<lastMetadataSentAtRef, lastSubmitted, lastSubmittedAt,
                   lastSend, prevSend>>

\* the duplicate test: same text as the last send and nothing pending
SuppressDuplicateIgnoringPending(payloadSignature) ==
    payloadSignature = lastSentMetadataSignatureRef

SuppressDuplicateNever(payloadSignature) == FALSE

SuppressDuplicate(payloadSignature) ==
    /\ payloadSignature = lastSentMetadataSignatureRef
    /\ pendingMetadataRef = NullPayload

\* the test for an immediate send
IntervalElapsed(elapsedMs, interval) == elapsedMs >= interval

\* the pending payload after a deferred candidate: the candidate overwrites it
NextPendingKeepFirst(nextPayload) ==
    IF pendingMetadataRef # NullPayload THEN pendingMetadataRef ELSE nextPayload

NextPendingBlanked(nextPayload) == [nextPayload EXCEPT !.title = " "]

NextPending(nextPayload) == nextPayload

\* the test that leaves an armed timer in place
AlreadyArmedNever == FALSE

AlreadyArmed == metadataFlushTimerRef # NullTimer

\* the delay of the deferred flush
WaitMsHalved(interval, elapsedMs) == Max(0, (interval - elapsedMs) \div 2)

WaitMs(interval, elapsedMs) == Max(0, interval - elapsedMs)

\* the media-session effect for a composed payload, minimum interval `interval`
SubmitPayload(nextPayload, interval) ==
    LET payloadSignature == Signature(nextPayload)
        elapsedMs == now - lastMetadataSentAtRef
        waitMs == WaitMs(interval, elapsedMs)
    IN  /\ lastSubmitted' = nextPayload
        /\ lastSubmittedAt' = now
        /\ IF SuppressDuplicate(payloadSignature)
           THEN UNCHANGED <<lastMetadataSentAtRef, lastSentMetadataSignatureRef,
                            pendingMetadataRef, metadataFlushTimerRef, timers,
                            mediaSessionMetadata, coalesced, lastSend, prevSend>>
           ELSE IF IntervalElapsed(elapsedMs, interval)
           THEN /\ timers' = IF metadataFlushTimerRef # NullTimer
                             THEN ClearTimeout(metadataFlushTimerRef) ELSE timers
                /\ metadataFlushTimerRef' = NullTimer
                /\ pendingMetadataRef' = NullPayload
                /\ coalesced' = 0
                /\ publishPayload(nextPayload, "immediate", nextPayload)
           ELSE /\ pendingMetadataRef' = NextPending(nextPayload)
                /\ coalesced' = Min(2, coalesced + 1)
                /\ IF AlreadyArmed
                   THEN UNCHANGED <<metadataFlushTimerRef, timers>>
                   ELSE /\ metadataFlushTimerRef' = FreshTimerId
                        /\ timers' = timers \cup
                               { [id |-> FreshTimerId, due |-> now + waitMs] }
                /\ UNCHANGED <<lastMetadataSentAtRef, lastSentMetadataSignatureRef,
                               mediaSessionMetadata, lastSend, prevSend>>

\* one run of the media-session effect after a render
MediaSessionEffect(metadata, nextPayload, interval) ==
    IF metadata = NullPayload
    THEN ClearMediaSession
    ELSE SubmitPayload(nextPayload, interval)

\* playTrack: setCurrentMetadata(metadata), then the render's effect
LoadMetadata(metadata, nextPayload) ==
    /\ ~unmounted
    /\ currentMetadata' = metadata
    /\ MediaSessionEffect(metadata, nextPayload, metadataRefreshIntervalMs)
    /\ UNCHANGED <<now, unmounted, metadataRefreshIntervalMs>>

\* a render whose lyric window, mapping or hold changed (tick, configuration)
Render(nextPayload) ==
    /\ ~unmounted
    /\ MediaSessionEffect(currentMetadata, nextPayload, metadataRefreshIntervalMs)
    /\ UNCHANGED <<now, unmounted, currentMetadata, metadataRefreshIntervalMs>>

\* the interval slider: setMetadataRefreshIntervalMs, then the render's effect
\* with the payload composed as before
ChangeInterval(interval) ==
    /\ ~unmounted
    /\ interval # metadataRefreshIntervalMs
    /\ metadataRefreshIntervalMs' = interval
    /\ MediaSessionEffect(currentMetadata, lastSubmitted, interval)
    /\ UNCHANGED <<now, unmounted, currentMetadata>>

\* the deferred flush scheduled by the effect
TimerFire(t) ==
    /\ t \in timers
    /\ now >= t.due
    /\ timers' = timers \ {t}
    /\ metadataFlushTimerRef' = NullTimer
    /\ coalesced' = 0
    /\ IF pendingMetadataRef = NullPayload
       THEN UNCHANGED <<pendingMetadataRef, mediaSessionMetadata,
                        lastMetadataSentAtRef, lastSentMetadataSignatureRef,
                        lastSend, prevSend>>
       ELSE /\ pendingMetadataRef' = NullPayload
            /\ publishPayload(pendingMetadataRef, "deferred", lastSubmitted)
    /\ UNCHANGED <<now, unmounted, currentMetadata, metadataRefreshIntervalMs,
                   lastSubmitted, lastSubmittedAt>>

\* the host's timers after the unmount cleanup
TimersAfterUnmountKept == timers

TimersAfterUnmount ==
    IF metadataFlushTimerRef # NullTimer
    THEN ClearTimeout(metadataFlushTimerRef) ELSE timers

\* the unmount cleanup effect
Unmount ==
    /\ ~unmounted
    /\ unmounted' = TRUE
    /\ timers' = TimersAfterUnmount
    /\ UNCHANGED <<now, currentMetadata, metadataRefreshIntervalMs,
                   lastMetadataSentAtRef, lastSentMetadataSignatureRef,
                   pendingMetadataRef, metadataFlushTimerRef,
                   mediaSessionMetadata, lastSubmitted, lastSubmittedAt,
                   coalesced, lastSend, prevSend>>

\* the clock advances unless a timer is due
Advance ==
    /\ now < MaxTime
    /\ \A t \in timers : t.due > now
    /\ now' = now + 1
    /\ UNCHANGED <<unmounted, currentMetadata, metadataRefreshIntervalMs,
                   lastMetadataSentAtRef, lastSentMetadataSignatureRef,
                   pendingMetadataRef, metadataFlushTimerRef, timers,
                   mediaSessionMetadata, lastSubmitted, lastSubmittedAt,
                   coalesced, lastSend, prevSend>>

----------------------------------------------------------------------------
(* lrc.ts: the timeline parser and the active-line resolver.  A string is  *)
(* a sequence of one-character strings.                                    *)

Digits == {"0", "1", "2", "3", "4", "5", "6", "7", "8", "9"}

\* white space and line terminators, as String.prototype.trim sees them
WhiteSpace == {" ", "\t", "\r", "\n"}

DigitValue(c) ==
    LET ds == <<"0", "1", "2", "3", "4", "5", "6", "7", "8", "9">>
    IN  (CHOOSE k \in 1..10 : ds[k] = c) - 1

\* Number(digits) of a string of decimal digits
RECURSIVE Number(_)
Number(digits) ==
    IF digits = <<>> THEN 0
    ELSE 10 * Number(SubSeq(digits, 1, Len(digits) - 1))
         + DigitValue(digits[Len(digits)])

\* String.prototype.padEnd(width, "0")
RECURSIVE padEnd(_, _)
padEnd(str, width) ==
    IF Len(str) >= width THEN str ELSE padEnd(Append(str, "0"), width)

RECURSIVE trimStart(_)
trimStart(str) ==
    IF str # <<>> /\ Head(str) \in WhiteSpace THEN trimStart(Tail(str)) ELSE str

RECURSIVE trimEnd(_)
trimEnd(str) ==
    IF str # <<>> /\ str[Len(str)] \in WhiteSpace
    THEN trimEnd(SubSeq(str, 1, Len(str) - 1)) ELSE str

trim(str) == trimEnd(trimStart(str))

\* the character at 1-based position k, or "" past the end
CharAt(str, k) == IF k >= 1 /\ k <= Len(str) THEN str[k] ELSE ""

\* n decimal digits start at position from
DigitsAt(str, from, n) ==
    /\ from + n - 1 <= Len(str)
    /\ \A k \in from..(from + n - 1) : str[k] \in Digits

\* the digit counts of TIMESTAMP_REGEX: \d{1,2}, \d{2}, optional \.\d{1,3}
MinuteWidths == {1, 2}

SecondWidthsLoose == {1, 2}

SecondWidths == {2}

FractionWidths == {0, 1, 2, 3}

\* TIMESTAMP_REGEX matches at position i with these digit counts (f = 0: no
\* fraction group)
MatchesShape(line, i, m, s, f) ==
    /\ CharAt(line, i) = "["
    /\ DigitsAt(line, i + 1, m)
    /\ CharAt(line, i + m + 1) = ":"
    /\ DigitsAt(line, i + m + 2, s)
    /\ IF f = 0
       THEN CharAt(line, i + m + s + 2) = "]"
       ELSE /\ CharAt(line, i + m + s + 2) = "."
            /\ DigitsAt(line, i + m + s + 3, f)
            /\ CharAt(line, i + m + s + 3 + f) = "]"

Shapes == MinuteWidths \X SecondWidths \X FractionWidths

NoMatch == [last |-> 0]

\* the match of TIMESTAMP_REGEX at position i: its last position and groups
MatchAt(line, i) ==
    IF \E sh \in Shapes : MatchesShape(line, i, sh[1], sh[2], sh[3])
    THEN LET sh == CHOOSE x \in Shapes : MatchesShape(line, i, x[1], x[2], x[3])
             m == sh[1]
             s == sh[2]
             f == sh[3]
         IN  [last |-> IF f = 0 THEN i + m + s + 2 ELSE i + m + s + 3 + f,
              minutes |-> SubSeq(line, i + 1, i + m),
              seconds |-> SubSeq(line, i + m + 2, i + m + s + 1),
              hasFraction |-> f # 0,
              fraction |-> IF f = 0 THEN <<>>
                           ELSE SubSeq(line, i + m + s + 3, i + m + s + 2 + f)]
    ELSE NoMatch

\* TIMESTAMP_REGEX.exec(line) from lastIndex: the leftmost match at or after
\* position from, with its first position
RECURSIVE exec(_, _)
exec(line, from) ==
    IF from > Len(line) THEN NoMatch
    ELSE LET match == MatchAt(line, from)
         IN  IF match # NoMatch THEN match ELSE exec(line, from + 1)

RECURSIVE MatchStart(_, _)
MatchStart(line, from) ==
    IF MatchAt(line, from) # NoMatch THEN from ELSE MatchStart(line, from + 1)

parseTimestampMsUnpadded(match) ==
    LET minutes == Number(match.minutes)
        seconds == Number(match.seconds)
        fraction == IF match.hasFraction THEN match.fraction ELSE <<"0">>
    IN  minutes * 60000 + seconds * 1000 + Number(fraction)

parseTimestampMs(match) ==
    LET minutes == Number(match.minutes)
        seconds == Number(match.seconds)
        fraction == IF match.hasFraction THEN match.fraction ELSE <<"0">>
        millis == Number(padEnd(fraction, 3))
    IN  minutes * 60000 + seconds * 1000 + millis

\* the exec loop of parseLrc: the timestamps of one line, in tag order
RECURSIVE LineTimestamps(_, _)
LineTimestamps(line, from) ==
    LET match == exec(line, from)
    IN  IF match = NoMatch THEN <<>>
        ELSE <<parseTimestampMs(match)>> \o LineTimestamps(line, match.last + 1)

\* line.replace(TIMESTAMP_REGEX, "")
RECURSIVE StripTimestamps(_, _)
StripTimestamps(line, from) ==
    LET match == exec(line, from)
    IN  IF match = NoMatch THEN SubSeq(line, from, Len(line))
        ELSE SubSeq(line, from, MatchStart(line, from) - 1)
             \o StripTimestamps(line, match.last + 1)

\* text.split(/\r?\n/)
RECURSIVE SplitLines(_, _)
SplitLines(text, current) ==
    IF text = <<>> THEN <<current>>
    ELSE IF Head(text) = "\n"
         THEN <<current>> \o SplitLines(Tail(text), <<>>)
         ELSE IF Head(text) = "\r" /\ Len(text) >= 2 /\ text[2] = "\n"
              THEN <<current>> \o SplitLines(Tail(Tail(text)), <<>>)
              ELSE SplitLines(Tail(text), Append(current, Head(text)))

EllipsisBlank == <<>>

Ellipsis == <<".", ".", ".">>

\* the entries one source line pushes
LineEntries(line) ==
    LET timestamps == LineTimestamps(line, 1)
        stripped == trim(StripTimestamps(line, 1))
        lyricText == IF stripped = <<>> THEN Ellipsis ELSE stripped
    IN  [k \in 1..Len(timestamps) |->
            [timeMs |-> timestamps[k], text |-> lyricText]]

\* the array `parsed` before it is sorted
RECURSIVE ParsedEntries(_)
ParsedEntries(lines) ==
    IF lines = <<>> THEN <<>>
    ELSE LineEntries(Head(lines)) \o ParsedEntries(Tail(lines))

\* the comparator handed to Array.prototype.sort
CompareDescending(a, b) == b.timeMs - a.timeMs

CompareByTime(a, b) == a.timeMs - b.timeMs

\* Array.prototype.sort is stable (ECMAScript 2019): x, which came after all
\* of sorted, goes behind every element that does not compare greater
RECURSIVE InsertSorted(_, _)
InsertSorted(sorted, x) ==
    IF sorted # <<>> /\ CompareByTime(sorted[Len(sorted)], x) > 0
    THEN Append(InsertSorted(SubSeq(sorted, 1, Len(sorted) - 1), x),
                sorted[Len(sorted)])
    ELSE Append(sorted, x)

RECURSIVE sort(_)
sort(array) ==
    IF array = <<>> THEN <<>>
    ELSE InsertSorted(sort(SubSeq(array, 1, Len(array) - 1)), array[Len(array)])

parseLrc(text) == sort(ParsedEntries(SplitLines(text, <<>>)))

\* the comparison of the binary search
AtOrBeforeStrict(timeMs, ms) == timeMs < ms

AtOrBefore(timeMs, ms) == timeMs <= ms

\* the loop of activeLyricIndex, indexes counted from 0 as in the source
RECURSIVE Search(_, _, _, _, _)
Search(lines, ms, left, right, answer) ==
    IF left > right THEN answer
    ELSE LET mid == (left + right) \div 2
         IN  IF AtOrBefore(lines[mid + 1].timeMs, ms)
             THEN Search(lines, ms, mid + 1, right, mid)
             ELSE Search(lines, ms, left, mid - 1, answer)

activeLyricIndex(lines, ms) ==
    IF Len(lines) = 0 THEN -1
    ELSE Search(lines, ms, 0, Len(lines) - 1, -1)

----------------------------------------------------------------------------
(* Inputs of the parser and of the resolver                                *)

MaxFragments == 4

\* pieces an LRC text is put together from
TagFragments ==
    { <<"[", "0", ":", "0", "1", "]">>,
      <<"[", "0", ":", "0", "0", ".", "5", "]">> }

OutOfRangeFragments == { <<"[", "0", ":", "7", "5", "]">> }

MalformedFragments ==
    { <<"[", "x", ":", "0", "1", "]">>,
      <<"[", "0", ":", "1", "]">> }

TextFragments == { <<"a">>, <<"b">>, <<"\n">> }

Fragments ==
    TagFragments \cup OutOfRangeFragments \cup MalformedFragments
        \cup TextFragments

RECURSIVE Concat(_)
Concat(pieces) ==
    IF pieces = <<>> THEN <<>> ELSE Head(pieces) \o Concat(Tail(pieces))

FragmentLists == UNION { [1..n -> Fragments] : n \in 0..MaxFragments }

\* pieces of the texts whose lines are blank or padded around their tags
BlankTagFragments == { <<"[", "0", ":", "0", "1", "]">> }

BlankFragments ==
    BlankTagFragments \cup { <<" ">>, <<"a">>, <<"\n">>, <<"\r">> }

BlankFragmentLists == UNION { [1..n -> BlankFragments] : n \in 0..MaxFragments }


MaxLines == 4

MaxLineTime == 4

IsSorted(lines) ==
    \A k \in 1..(Len(lines) - 1) : lines[k].timeMs <= lines[k + 1].timeMs

\* timelines sorted ascending by timeMs, duplicates allowed
SortedTimelines ==
    { lines \in UNION { [1..n -> [timeMs : 1..MaxLineTime, text : {<<"a">>}]] :
                            n \in 0..MaxLines } : IsSorted(lines) }

----------------------------------------------------------------------------
(* The window fitter of App.tsx.  A text is a sequence of graphemes, which *)
(* is what splitGraphemes makes of it; the measurer adds up the advance    *)
(* widths of the graphemes.                                                *)

\* advance widths, in pixels, of a narrow glyph, a wide glyph and the space
GlyphWidth(grapheme) ==
    CASE grapheme = "i" -> 1
      [] grapheme = "M" -> 3
      [] OTHER -> 1

RECURSIVE measureWidth(_)
measureWidth(text) ==
    IF text = <<>> THEN 0
    ELSE GlyphWidth(Head(text)) + measureWidth(Tail(text))

\* the inner loop: the candidate grows from graphemes[end] on while its
\* left-trimmed form fits
RECURSIVE GrowCandidate(_, _, _, _, _)
GrowCandidate(graphemes, end, candidate, reachedLineEnd, maxWidthPx) ==
    IF end > Len(graphemes)
    THEN [candidate |-> candidate, reachedLineEnd |-> reachedLineEnd]
    ELSE LET nextCandidate == Append(candidate, graphemes[end])
         IN  IF measureWidth(trimStart(nextCandidate)) <= maxWidthPx
             THEN GrowCandidate(graphemes, end + 1, nextCandidate,
                                end = Len(graphemes), maxWidthPx)
             ELSE [candidate |-> candidate, reachedLineEnd |-> reachedLineEnd]

ForcedCandidateNone(candidate, grapheme) == candidate

\* if (!candidate) candidate = graphemes[start]
ForcedCandidate(candidate, grapheme) ==
    IF candidate = <<>> THEN <<grapheme>> ELSE candidate

PushWindowAlways(windows, finalWindow) == Append(windows, finalWindow)

\* if (windows[windows.length - 1] !== finalWindow) windows.push(finalWindow)
PushWindow(windows, finalWindow) ==
    IF windows # <<>> /\ windows[Len(windows)] = finalWindow
    THEN windows
    ELSE Append(windows, finalWindow)

\* the outer loop, from the start position on (positions count from 1)
RECURSIVE WindowsFrom(_, _, _, _)
WindowsFrom(graphemes, start, windows, maxWidthPx) ==
    IF start > Len(graphemes) THEN windows
    ELSE LET grown == GrowCandidate(graphemes, start, <<>>, FALSE, maxWidthPx)
             candidate == ForcedCandidate(grown.candidate, graphemes[start])
             normalized == trimStart(candidate)
             finalWindow == IF normalized # <<>> THEN normalized ELSE candidate
             pushed == PushWindow(windows, finalWindow)
         IN  IF grown.reachedLineEnd THEN pushed
             ELSE WindowsFrom(graphemes, start + 1, pushed, maxWidthPx)

WholeWindowUntrimmed(text) == text

\* return [text.trimStart()]
WholeWindow(text) == trimStart(text)

buildFittingWindows(text, maxWidthPx) ==
    IF trim(text) = <<>> THEN << <<>> >>
    ELSE IF measureWidth(trimStart(text)) <= maxWidthPx
    THEN << WholeWindow(text) >>
    ELSE LET windows == WindowsFrom(text, 1, <<>>, maxWidthPx)
         IN  IF Len(windows) > 0 THEN windows ELSE <<text>>

MaxTextLen == 5
MaxWidth == 4

Graphemes == {"i", "M", " "}

FitTexts == UNION { [1..n -> Graphemes] : n \in 0..MaxTextLen }

\* buildFittingWindows(fitText, fitMaxWidth), as the lyricWindow memo calls it
Fit ==
    /\ pc = "fit"
    /\ fitWindows' = buildFittingWindows(fitText, fitMaxWidth)
    /\ pc' = "fitted"
    /\ UNCHANGED <<lrcText, lyrics, currentMs, activeLyric, fitText,
                   fitMaxWidth>>

----------------------------------------------------------------------------
(* The scroll dwell profile of App.tsx.  Fractions are counted in fortieths *)
(* (0.025), and the inputs are even counts, so that every sum, difference  *)
(* and halving of the code is exact.                                       *)

DwellOne == 40

MIN_SCROLL_PORTION == 4

DEFAULT_SCROLL_DWELL_START == 10

DEFAULT_SCROLL_DWELL_END == 10

\* the literal 0.9 of the clamps
DwellCap == 36

\* Math.min(0.9, Math.max(0, value))
ClampDwell(value) == Min(DwellCap, Max(0, value))

\* the profile the hydration effect sets from a stored profile
HydratedProfile(storedStart, storedEnd) ==
    LET nextStart == ClampDwell(storedStart)
        nextEnd == ClampDwell(storedEnd)
        overflow ==
            Max(0, nextStart + nextEnd - (DwellOne - MIN_SCROLL_PORTION))
    IN  [start |-> Max(0, nextStart - overflow \div 2),
         end |-> Max(0, nextEnd - overflow \div 2)]

MutualClampNone(prev, clamped) == prev

MutualClampRaising(prev, clamped) == Max(0, DwellOne - MIN_SCROLL_PORTION - clamped)

\* the functional update of the other fraction:
\* Math.min(prev, Math.max(0, 1 - MIN_SCROLL_PORTION - clamped))
MutualClamp(prev, clamped) ==
    Min(prev, Max(0, DwellOne - MIN_SCROLL_PORTION - clamped))

MaxExcess == 2

\* stored or requested fractions, from below 0 to above 1
DwellInputs == { 2 * i : i \in (0 - MaxExcess)..(DwellOne \div 2 + MaxExcess) }

\* the hydration effect finds a stored profile
HydrateScrollProfile(storedStart, storedEnd) ==
    /\ ~scrollProfileHydrated
    /\ scrollDwellStart' = HydratedProfile(storedStart, storedEnd).start
    /\ scrollDwellEnd' = HydratedProfile(storedStart, storedEnd).end
    /\ scrollProfileHydrated' = TRUE

\* the hydration effect finds no stored profile
HydrateNoProfile ==
    /\ ~scrollProfileHydrated
    /\ scrollProfileHydrated' = TRUE
    /\ UNCHANGED <<scrollDwellStart, scrollDwellEnd>>

handleScrollDwellStartChange(nextValue) ==
    LET clamped == ClampDwell(nextValue)
    IN  /\ scrollDwellStart' = clamped
        /\ scrollDwellEnd' = MutualClamp(scrollDwellEnd, clamped)
        /\ UNCHANGED scrollProfileHydrated

handleScrollDwellEndChange(nextValue) ==
    LET clamped == ClampDwell(nextValue)
    IN  /\ scrollDwellEnd' = clamped
        /\ scrollDwellStart' = MutualClamp(scrollDwellStart, clamped)
        /\ UNCHANGED scrollProfileHydrated

----------------------------------------------------------------------------
(* The payload composition of App.tsx.  A playback position is counted in  *)
(* milliseconds: position k stands for currentTime = the double nearest to *)
(* k / 1000 seconds.  Timestamps are integers, as parseLrc computes them.  *)

\* the positions k up to 1023 for which the IEEE-754 product
\* currentTime * 1000 is below k (1.005 * 1000 = 1004.9999999999999); for
\* no k up to 1023 is it above k
ProductRoundsBelow == { k \in 1001..1023 : k % 2 = 1 }

\* the greatest integer not above currentTime * 1000
currentTimeMs(position) ==
    IF position \in ProductRoundsBelow THEN position - 1 ELSE position

ActivationTimeLeast(firstLyricTime, minSeconds) ==
    Min(firstLyricTime, minSeconds)

\* Math.max(firstLyricSeconds, minSongMetadataSeconds); the quotient
\* timeMs / 1000 is the double that stands for position timeMs
ActivationTime(firstLyricTime, minSeconds) == Max(firstLyricTime, minSeconds)

shouldUseLyricsWindow(lines, position, minSeconds) ==
    IF Len(lines) = 0 THEN FALSE
    ELSE position >= ActivationTime(lines[1].timeMs, minSeconds)

BLUETOOTH_WIDTH_BASELINE_M == 14

\* the whole pixels of measure("M" x 14) * 0.9 * lyricWidthScale, with the
\* scale in tenths; the measured widths are whole
lyricWidthLimitPx(scale) ==
    (BLUETOOTH_WIDTH_BASELINE_M * GlyphWidth("M") * 9 * scale) \div 100

\* Math.max(MIN_SCROLL_PORTION, 1 - scrollDwellStart - scrollDwellEnd)
scrollPortion(dwellStart, dwellEnd) ==
    Max(MIN_SCROLL_PORTION, DwellOne - dwellStart - dwellEnd)

currentWindowIndexFirst(count, elapsedInLineMs, lineDurationMs, dwellStart, dwellEnd) == 0

\* the index of the current window; elapsed / duration is compared with the
\* dwell fractions (fortieths) by cross-multiplication
currentWindowIndex(count, elapsedInLineMs, lineDurationMs, dwellStart, dwellEnd) ==
    LET elapsed == Min(lineDurationMs, Max(0, elapsedInLineMs))
        scrollStart == dwellStart
        scrollEnd ==
            Min(DwellOne - MIN_SCROLL_PORTION,
                dwellStart + scrollPortion(dwellStart, dwellEnd))
        numerator == (elapsed * DwellOne - scrollStart * lineDurationMs)
                         * (count - 1)
        denominator == lineDurationMs * (scrollEnd - scrollStart)
    IN  IF count <= 1 THEN 0
        ELSE IF elapsed * DwellOne <= scrollStart * lineDurationMs THEN 0
        ELSE IF elapsed * DwellOne >= scrollEnd * lineDurationMs
        THEN count - 1
        ELSE Min(count - 1, numerator \div denominator)

\* the lyricWindow memo; active is the 0-based index of the resolver
lyricWindow(lines, active, widthLimit, position, dwellStart, dwellEnd) ==
    LET previousText == IF active > 0 THEN lines[active].text ELSE <<>>
        currentText == IF active >= 0 THEN lines[active + 1].text ELSE <<>>
        hasNext == active >= 0 /\ active < Len(lines) - 1
        nextText == IF hasNext THEN lines[active + 2].text ELSE <<>>
        previousWindows == buildFittingWindows(previousText, widthLimit)
        currentWindows == buildFittingWindows(currentText, widthLimit)
        nextWindows == buildFittingWindows(nextText, widthLimit)
        currentLineStartMs == IF active >= 0 THEN lines[active + 1].timeMs
                              ELSE 0
        currentLineEndMs == IF hasNext THEN lines[active + 2].timeMs
                            ELSE currentLineStartMs + 4000
        lineDurationMs == Max(300, currentLineEndMs - currentLineStartMs)
        elapsedInLineMs == position - currentLineStartMs
        index == currentWindowIndex(Len(currentWindows), elapsedInLineMs,
                                    lineDurationMs, dwellStart, dwellEnd)
    IN  [previous |-> previousWindows[Len(previousWindows)],
         current |-> currentWindows[index + 1],
         next |-> nextWindows[1]]

EMPTY_METADATA_PLACEHOLDER == <<" ">>

metadataFieldValueAsIs(text) == text

metadataFieldValueOrPlaceholder(text) ==
    IF Len(trim(text)) > 0 THEN text ELSE EMPTY_METADATA_PLACEHOLDER

ComposePayloadUnmapped(uses, window, mapping, metadata) ==
    [title |-> metadataFieldValueOrPlaceholder(
                   IF uses THEN window.previous ELSE metadata.title),
     artist |-> metadataFieldValueOrPlaceholder(
                   IF uses THEN window.current ELSE metadata.artist),
     album |-> metadataFieldValueOrPlaceholder(
                   IF uses THEN window.next ELSE metadata.album)]

\* the nextPayload of the publish effect
ComposePayload(uses, window, mapping, metadata) ==
    [title |-> metadataFieldValueOrPlaceholder(
                   IF uses THEN window[mapping.title] ELSE metadata.title),
     artist |-> metadataFieldValueOrPlaceholder(
                   IF uses THEN window[mapping.artist] ELSE metadata.artist),
     album |-> metadataFieldValueOrPlaceholder(
                   IF uses THEN window[mapping.album] ELSE metadata.album)]

DEFAULT_FIELD_MAPPING ==
    [title |-> "previous", artist |-> "current", album |-> "next"]

FieldMappings ==
    { DEFAULT_FIELD_MAPPING,
      [title |-> "current", artist |-> "current", album |-> "current"],
      [title |-> "next", artist |-> "previous", album |-> "current"] }

\* a track's metadata, with and without blank fields
ComposeMetadatas ==
    { [title |-> <<"S">>, artist |-> <<"B">>, album |-> <<"L">>],
      [title |-> <<" ">>, artist |-> <<"B">>, album |-> <<>>] }

MaxOffset == 5

\* timestamps around one second
LyricTimes == { 1000 + i : i \in 0..MaxOffset }

LyricTexts == { <<"i">>, <<"M", " ", "i">> }

MaxComposeLines == 2

ComposeTimelines ==
    { lines \in UNION { [1..n -> [timeMs : LyricTimes, text : LyricTexts]] :
                            n \in 0..MaxComposeLines } : IsSorted(lines) }

\* the start of a track and the positions around one second
Positions == {0} \cup { 1000 + i : i \in 0..(MaxOffset + 1) }

\* holds of 0, 1 and 2 seconds
HoldChoices == {0, 1000, 2000}

\* a narrow and the default width scale
ScaleChoices == {1, 10}

NoWindow == [previous |-> <<>>, current |-> <<>>, next |-> <<>>]

\* one render: the memos and the nextPayload of the publish effect
Compose ==
    /\ pc = "compose"
    /\ LET active == activeLyricIndex(lyrics, currentTimeMs(currentTime))
           uses == shouldUseLyricsWindow(lyrics, currentTime,
                                         minSongMetadataSeconds)
           window == lyricWindow(lyrics, active,
                                 lyricWidthLimitPx(lyricWidthScale),
                                 currentTime, scrollDwellStart,
                                 scrollDwellEnd)
       IN  /\ activeLyric' = active
           /\ usesLyricsWindow' = uses
           /\ windowTexts' = window
           /\ composedPayload' = ComposePayload(uses, window, fieldMapping,
                                                currentMetadata)
    /\ pc' = "composed"
    /\ UNCHANGED <<lrcText, lyrics, currentMs, currentTime,
                   minSongMetadataSeconds, fieldMapping, lyricWidthScale>>

----------------------------------------------------------------------------
(* App.tsx: track changes.  A playTrack call is a record in loads that     *)
(* moves through its awaits; React renders after each state change, and    *)
(* the publish effect runs when one of its dependencies changed.           *)

Tracks == {1, 2}

\* parseTrackMetadata(file, path); the artwork URL stands for the track
TrackMetadata(track) ==
    IF track = 1
    THEN [title |-> <<"A">>, artist |-> <<"A">>, album |-> <<"A">>,
          artworkUrl |-> 1]
    ELSE [title |-> <<"B">>, artist |-> <<"B">>, album |-> <<"B">>,
          artworkUrl |-> 2]

\* the text of the track's .lrc file: "[0:01]a" and "[0:01]b"
TrackLrcText(track) ==
    IF track = 1
    THEN <<"[", "0", ":", "0", "1", "]", "a">>
    ELSE <<"[", "0", ":", "0", "1", "]", "b">>

\* the start of a track and the time of the tracks' first lines
AppPositions == {0, 1000}

\* the clock units a session is followed for
MaxSession == 2

MaxPlays == 2

\* nextPayload with its artwork URL; timelineOf records, for a payload of
\* lyric windows, the track whose timeline they were cut from
TrackedPayload(uses, window, mapping, metadata, timelineTrack) ==
    LET texts == ComposePayload(uses, window, mapping, metadata)
    IN  [title |-> texts.title,
         artist |-> texts.artist,
         album |-> texts.album,
         artworkUrl |-> metadata.artworkUrl,
         timelineOf |-> IF uses THEN timelineTrack ELSE 0]

\* the payload draws on nothing but the given track
ComposedFor(payload, track) ==
    /\ payload.artworkUrl = track
    /\ payload.timelineOf \in {0, track}

AppRenderStale(effectRuns, trackChanged, track, metadata, lines, timelineTrack, position) ==
    LET active == activeLyricIndex(lines, currentTimeMs(position))
        uses == shouldUseLyricsWindow(lines, position, minSongMetadataSeconds)
        window == lyricWindow(lines, active,
                              lyricWidthLimitPx(lyricWidthScale), position,
                              scrollDwellStart, scrollDwellEnd)
        payload == IF metadata = NullPayload THEN NullPayload
                   ELSE TrackedPayload(uses, window, fieldMapping, metadata,
                                       timelineTrack)
        fresh == /\ effectRuns
                 /\ metadata # NullPayload
                 /\ ComposedFor(payload, track)
    IN  /\ activeLyric' = activeLyric
        /\ usesLyricsWindow' = uses
        /\ windowTexts' = window
        /\ freshSubmitted' = (fresh \/ (freshSubmitted /\ ~trackChanged))
        /\ IF effectRuns
           THEN /\ composedPayload' = payload
                /\ MediaSessionEffect(metadata, payload,
                                      metadataRefreshIntervalMs)
           ELSE UNCHANGED <<composedPayload, lastMetadataSentAtRef,
                            lastSentMetadataSignatureRef, pendingMetadataRef,
                            metadataFlushTimerRef, timers,
                            mediaSessionMetadata, lastSubmitted,
                            lastSubmittedAt, coalesced, lastSend, prevSend>>

\* the render after a state change and, if a dependency of the publish
\* effect changed, the effect; track is the new currentTrackId
AppRender(effectRuns, trackChanged, track, metadata, lines, timelineTrack, position) ==
    LET active == activeLyricIndex(lines, currentTimeMs(position))
        uses == shouldUseLyricsWindow(lines, position, minSongMetadataSeconds)
        window == lyricWindow(lines, active,
                              lyricWidthLimitPx(lyricWidthScale), position,
                              scrollDwellStart, scrollDwellEnd)
        payload == IF metadata = NullPayload THEN NullPayload
                   ELSE TrackedPayload(uses, window, fieldMapping, metadata,
                                       timelineTrack)
        fresh == /\ effectRuns
                 /\ metadata # NullPayload
                 /\ ComposedFor(payload, track)
    IN  /\ activeLyric' = active
        /\ usesLyricsWindow' = uses
        /\ windowTexts' = window
        /\ freshSubmitted' = (fresh \/ (freshSubmitted /\ ~trackChanged))
        /\ IF effectRuns
           THEN /\ composedPayload' = payload
                /\ MediaSessionEffect(metadata, payload,
                                      metadataRefreshIntervalMs)
           ELSE UNCHANGED <<composedPayload, lastMetadataSentAtRef,
                            lastSentMetadataSignatureRef, pendingMetadataRef,
                            metadataFlushTimerRef, timers,
                            mediaSessionMetadata, lastSubmitted,
                            lastSubmittedAt, coalesced, lastSend, prevSend>>

\* playTrack(track, { startTimeSeconds }) is called: by a selection, by
\* playNext or playPrevious, by the ended event, or by the snapshot restore
PlayTrack(track, startTimeSeconds) ==
    /\ playsStarted < MaxPlays
    /\ startTimeSeconds = 0 \/ playsStarted = 0
    /\ playsStarted' = playsStarted + 1
    /\ loads' = loads \cup { [id |-> playsStarted + 1, track |-> track,
                              start |-> startTimeSeconds, stage |-> "file"] }
    /\ UNCHANGED <<throttleVars, lrcVars, fitVars, dwellVars, configVars, orderVars, restoreVars, composeVars,
                   currentTrackId, audioTime, lyricsTrack, playedMs,
                   freshSubmitted>>

\* getFile() has resolved: setCurrentTrackId, setCurrentTime, audio.src and
\* audio.currentTime; then the awaits of audio.play() and parseTrackMetadata
PlayTrackStart(load) ==
    /\ load \in loads
    /\ load.stage = "file"
    /\ currentTrackId' = load.track
    /\ currentTime' = load.start
    /\ audioTime' = load.start
    /\ playedMs' = 0
    /\ loads' = (loads \ {load}) \cup {[load EXCEPT !.stage = "metadata"]}
    /\ AppRender(load.start # currentTime, TRUE, load.track, currentMetadata,
                 lyrics, lyricsTrack, load.start)
    /\ UNCHANGED <<now, unmounted, currentMetadata, metadataRefreshIntervalMs,
                   lrcText, lyrics, currentMs, pc, fitVars, dwellVars, configVars, orderVars, restoreVars,
                   minSongMetadataSeconds, fieldMapping, lyricWidthScale,
                   playsStarted, lyricsTrack>>

\* parseTrackMetadata has resolved: setCurrentMetadata, and setLyrics([])
\* in the same batch when the track has no .lrc file
PlayTrackMetadata(load, hasLrc) ==
    /\ load \in loads
    /\ load.stage = "metadata"
    /\ currentMetadata' = TrackMetadata(load.track)
    /\ IF hasLrc
       THEN /\ loads' = (loads \ {load}) \cup {[load EXCEPT !.stage = "lyrics"]}
            /\ UNCHANGED <<lyrics, lyricsTrack>>
       ELSE /\ loads' = loads \ {load}
            /\ lyrics' = <<>>
            /\ lyricsTrack' = 0
    /\ AppRender(TRUE, FALSE, currentTrackId, currentMetadata', lyrics',
                 lyricsTrack', currentTime)
    /\ UNCHANGED <<now, unmounted, metadataRefreshIntervalMs, lrcText,
                   currentMs, pc, fitVars, dwellVars, configVars, orderVars, restoreVars, currentTime,
                   minSongMetadataSeconds, fieldMapping, lyricWidthScale,
                   currentTrackId, audioTime, playsStarted, playedMs>>

\* the .lrc file has been read: setLyrics(parseLrc(lrcText))
PlayTrackLyrics(load) ==
    /\ load \in loads
    /\ load.stage = "lyrics"
    /\ lyrics' = parseLrc(TrackLrcText(load.track))
    /\ lyricsTrack' = load.track
    /\ loads' = loads \ {load}
    /\ AppRender(TRUE, FALSE, currentTrackId, currentMetadata, lyrics',
                 lyricsTrack', currentTime)
    /\ UNCHANGED <<now, unmounted, currentMetadata, metadataRefreshIntervalMs,
                   lrcText, currentMs, pc, fitVars, dwellVars, configVars, orderVars, restoreVars, currentTime,
                   minSongMetadataSeconds, fieldMapping, lyricWidthScale,
                   currentTrackId, audioTime, playsStarted, playedMs>>

\* the audio plays on to the position and the tick interval reads it:
\* setCurrentTime(audio.currentTime)
Tick(position) ==
    /\ currentTrackId # 0
    /\ position >= audioTime
    /\ position # currentTime
    /\ audioTime' = position
    /\ currentTime' = position
    /\ playedMs' = Min(minSongMetadataSeconds,
                     playedMs + (position - audioTime))
    /\ AppRender(TRUE, FALSE, currentTrackId, currentMetadata, lyrics,
                 lyricsTrack, position)
    /\ UNCHANGED <<now, unmounted, currentMetadata, metadataRefreshIntervalMs,
                   lrcText, lyrics, currentMs, pc, fitVars, dwellVars, configVars, orderVars, restoreVars,
                   minSongMetadataSeconds, fieldMapping, lyricWidthScale,
                   currentTrackId, loads, playsStarted, lyricsTrack>>

\* the media-session seekto handler: audio.currentTime = details.seekTime
SeekTo(seekTime) ==
    /\ currentTrackId # 0
    /\ seekTime # audioTime
    /\ audioTime' = seekTime
    /\ UNCHANGED <<throttleVars, lrcVars, fitVars, dwellVars, configVars, orderVars, restoreVars, composeVars,
                   currentTrackId, loads, playsStarted, lyricsTrack, playedMs,
                   freshSubmitted>>

\* ---- configuration: the send interval and the metadata hold ----
\* The interval is in ms and a stored interval in tenths of a ms, so that
\* Math.round has something to round; the hold and a stored hold are in ms.
DEFAULT_METADATA_REFRESH_INTERVAL_MS == 100

MIN_METADATA_REFRESH_INTERVAL_MS == 10

MAX_METADATA_REFRESH_INTERVAL_MS == 5000

DEFAULT_MIN_SONG_METADATA_SECONDS == 5000

MIN_SONG_METADATA_SECONDS == 0

MAX_SONG_METADATA_SECONDS == 30000

\* Math.round of a value given in tenths: a half rounds up
round(tenths) == (tenths + 5) \div 10

ClampIntervalNone(rounded) == rounded

\* Math.min(MAX_..., Math.max(MIN_..., Math.round(storedInterval)))
ClampInterval(rounded) ==
    Min(MAX_METADATA_REFRESH_INTERVAL_MS,
        Max(MIN_METADATA_REFRESH_INTERVAL_MS, rounded))

\* Math.min(MAX_SONG_METADATA_SECONDS, Math.max(MIN_SONG_METADATA_SECONDS, ...))
ClampMinSeconds(storedMinSeconds) ==
    Min(MAX_SONG_METADATA_SECONDS,
        Max(MIN_SONG_METADATA_SECONDS, storedMinSeconds))

\* what one run of the media-session effect may write
publishVars == <<lastMetadataSentAtRef, lastSentMetadataSignatureRef,
                 pendingMetadataRef, metadataFlushTimerRef, timers,
                 mediaSessionMetadata, lastSubmitted, lastSubmittedAt,
                 coalesced, lastSend, prevSend>>

\* how far the stored and the slider values reach around the two limits
MaxConfigExcess == 2

\* finite stored intervals, in tenths of a ms: halves of a ms around the limits
StoredIntervals ==
    { 10 * limit + 5 * d : limit \in { MIN_METADATA_REFRESH_INTERVAL_MS,
                                     MAX_METADATA_REFRESH_INTERVAL_MS },
                           d \in -MaxConfigExcess..MaxConfigExcess }

\* finite stored holds, in ms: twentieths of a second around the limits
StoredMinSeconds ==
    { limit + 50 * d : limit \in { MIN_SONG_METADATA_SECONDS,
                                   MAX_SONG_METADATA_SECONDS },
                       d \in -MaxConfigExcess..MaxConfigExcess }

\* values of the interval range input: min 10, max 5000, step 10
IntervalSliderValues ==
    { MIN_METADATA_REFRESH_INTERVAL_MS + 10 * i : i \in 0..MaxConfigExcess }
    \cup { MAX_METADATA_REFRESH_INTERVAL_MS - 10 * i : i \in 0..MaxConfigExcess }

\* values of the hold range input: min 0, max 30, step 0.1
MinSecondsSliderValues ==
    { MIN_SONG_METADATA_SECONDS + 100 * i : i \in 0..MaxConfigExcess }
    \cup { MAX_SONG_METADATA_SECONDS - 100 * i : i \in 0..MaxConfigExcess }

\* the interval hydration effect when a finite number is stored; the
\* media-session effect re-runs when the interval changed
HydrateInterval(storedInterval) ==
    LET clamped == ClampInterval(round(storedInterval)) IN
    /\ ~unmounted
    /\ ~metadataRefreshIntervalHydrated
    /\ metadataRefreshIntervalMs' = clamped
    /\ metadataRefreshIntervalHydrated' = TRUE
    /\ IF clamped # metadataRefreshIntervalMs
       THEN MediaSessionEffect(currentMetadata, lastSubmitted, clamped)
       ELSE UNCHANGED publishVars
    /\ UNCHANGED <<now, unmounted, currentMetadata,
                   minSongMetadataSecondsHydrated, fieldMappingHydrated>>

\* the interval hydration effect when nothing, or no finite number, is stored
HydrateNoInterval ==
    /\ ~unmounted
    /\ ~metadataRefreshIntervalHydrated
    /\ metadataRefreshIntervalHydrated' = TRUE
    /\ UNCHANGED <<throttleVars, minSongMetadataSecondsHydrated,
                   fieldMappingHydrated>>

\* the hold hydration effect when a finite number is stored
HydrateMinSeconds(storedMinSeconds) ==
    /\ ~unmounted
    /\ ~minSongMetadataSecondsHydrated
    /\ minSongMetadataSeconds' = ClampMinSeconds(storedMinSeconds)
    /\ minSongMetadataSecondsHydrated' = TRUE
    /\ UNCHANGED <<currentTime, fieldMapping, lyricWidthScale,
                   usesLyricsWindow, windowTexts, composedPayload,
                   metadataRefreshIntervalHydrated, fieldMappingHydrated>>

\* the hold hydration effect when nothing, or no finite number, is stored
HydrateNoMinSeconds ==
    /\ ~unmounted
    /\ ~minSongMetadataSecondsHydrated
    /\ minSongMetadataSecondsHydrated' = TRUE
    /\ UNCHANGED <<composeVars, metadataRefreshIntervalHydrated,
                   fieldMappingHydrated>>

\* the hold slider: setMinSongMetadataSeconds(Number(event.target.value))
ChangeMinSeconds(value) ==
    /\ ~unmounted
    /\ value # minSongMetadataSeconds
    /\ minSongMetadataSeconds' = value
    /\ UNCHANGED <<currentTime, fieldMapping, lyricWidthScale,
                   usesLyricsWindow, windowTexts, composedPayload, configVars>>

\* type MetadataField and type LyricLineRole
MetadataFields == {"title", "artist", "album"}

LyricLineRoles == {"previous", "current", "next"}

\* a key the stored mapping lacks
MissingRole == "undefined"

\* the mappings the store may hold: every key a role or missing
StoredMappings == [MetadataFields -> LyricLineRoles \cup {MissingRole}]

StoredOrDefaultRaw(storedMapping, field) == storedMapping[field]

\* storedMapping.field ?? DEFAULT_FIELD_MAPPING.field
StoredOrDefault(storedMapping, field) ==
    IF storedMapping[field] = MissingRole THEN DEFAULT_FIELD_MAPPING[field]
    ELSE storedMapping[field]

\* the field mapping hydration effect when a mapping is stored
HydrateFieldMapping(storedMapping) ==
    /\ ~unmounted
    /\ ~fieldMappingHydrated
    /\ fieldMapping' = [title |-> StoredOrDefault(storedMapping, "title"),
                        artist |-> StoredOrDefault(storedMapping, "artist"),
                        album |-> StoredOrDefault(storedMapping, "album")]
    /\ fieldMappingHydrated' = TRUE
    /\ UNCHANGED <<currentTime, minSongMetadataSeconds, lyricWidthScale,
                   usesLyricsWindow, windowTexts, composedPayload,
                   metadataRefreshIntervalHydrated,
                   minSongMetadataSecondsHydrated>>

\* the field mapping hydration effect when nothing is stored
HydrateNoFieldMapping ==
    /\ ~unmounted
    /\ ~fieldMappingHydrated
    /\ fieldMappingHydrated' = TRUE
    /\ UNCHANGED <<composeVars, metadataRefreshIntervalHydrated,
                   minSongMetadataSecondsHydrated>>

\* the select of one field: setFieldMapping(prev => ({...prev, [field]: value}))
ChangeFieldMapping(field, value) ==
    /\ ~unmounted
    /\ fieldMapping' = [fieldMapping EXCEPT ![field] = value]
    /\ UNCHANGED <<currentTime, minSongMetadataSeconds, lyricWidthScale,
                   usesLyricsWindow, windowTexts, composedPayload, configVars>>

\* ---- the restore of the playback snapshot ----
\* A position is counted in ms.  Track ids are numbers; the id after the
\* last track of the library is an id no scan finds.
MaxRestoreCalls == 3

\* useState(null) of the snapshot
NullSnapshot == [trackId |-> 0, positionSeconds |-> 0, wasPlaying |-> FALSE]

\* the snapshots the store may hold: positionSeconds of any sign
StoredSnapshots ==
    [trackId : Tracks \cup { track + 1 : track \in Tracks },
     positionSeconds : {0 - 1000, 0, 2000},
     wasPlaying : BOOLEAN]

AlreadyRestoredNever(snapshot) == FALSE

\* restoredSnapshotTrackIdRef.current === savedPlaybackSnapshot.trackId
AlreadyRestored(snapshot) == restoredSnapshotTrackIdRef = snapshot.trackId

\* the restore effect, run with the state of the render it follows
RestoreEffect(hydrated, snapshot, trackList) ==
    IF \/ ~hydrated
       \/ snapshot = NullSnapshot
       \/ trackList = {}
       \/ restoreInFlightRef
       \/ AlreadyRestored(snapshot)
       \/ snapshot.trackId \notin trackList
       \/ Len(restoreCalls) >= MaxRestoreCalls
    THEN UNCHANGED <<restoreInFlightRef, restoreCalls, restorePromises>>
    ELSE /\ restoreInFlightRef' = TRUE
         /\ restoreCalls' =
                Append(restoreCalls,
                       [track |-> snapshot.trackId,
                        autoplay |-> snapshot.wasPlaying,
                        startTimeSeconds |-> snapshot.positionSeconds])
         /\ restorePromises' = restorePromises \cup {Len(restoreCalls) + 1}

\* the snapshot hydration effect finds a snapshot with a string trackId
HydrateSnapshot(storedSnapshot) ==
    /\ ~savedPlaybackSnapshotHydrated
    /\ savedPlaybackSnapshot' =
           [trackId |-> storedSnapshot.trackId,
            positionSeconds |-> Max(0, storedSnapshot.positionSeconds),
            wasPlaying |-> storedSnapshot.wasPlaying]
    /\ savedPlaybackSnapshotHydrated' = TRUE
    /\ RestoreEffect(TRUE, savedPlaybackSnapshot', tracks)
    /\ UNCHANGED <<tracks, restoredSnapshotTrackIdRef>>

\* the snapshot hydration effect finds no snapshot
HydrateNoSnapshot ==
    /\ ~savedPlaybackSnapshotHydrated
    /\ savedPlaybackSnapshotHydrated' = TRUE
    /\ RestoreEffect(TRUE, savedPlaybackSnapshot, tracks)
    /\ UNCHANGED <<tracks, savedPlaybackSnapshot, restoredSnapshotTrackIdRef>>

\* a scan of the directory ends: setTracks(result.flatTracks)
ScanTracks(flatTracks) ==
    /\ flatTracks # tracks
    /\ tracks' = flatTracks
    /\ RestoreEffect(savedPlaybackSnapshotHydrated, savedPlaybackSnapshot,
                     flatTracks)
    /\ UNCHANGED <<savedPlaybackSnapshot, savedPlaybackSnapshotHydrated,
                   restoredSnapshotTrackIdRef>>

\* the promise of a restore's playTrack settles: the finally handler, with
\* the snapshot the effect closed over
RestoreSettled(call) ==
    /\ call \in restorePromises
    /\ restoredSnapshotTrackIdRef' = restoreCalls[call].track
    /\ restoreInFlightRef' = FALSE
    /\ restorePromises' = restorePromises \ {call}
    /\ UNCHANGED <<tracks, savedPlaybackSnapshot,
                   savedPlaybackSnapshotHydrated, restoreCalls>>

\* parseLrc(lrcText), as playTrack calls it
Parse ==
    /\ pc = "text"
    /\ lyrics' = parseLrc(lrcText)
    /\ pc' = "parsed"
    /\ UNCHANGED <<lrcText, currentMs, activeLyric>>

\* activeLyricIndex(lyrics, currentTime * 1000), the activeLyric memo
Resolve ==
    /\ pc = "timeline"
    /\ activeLyric' = activeLyricIndex(lyrics, currentMs)
    /\ pc' = "resolved"
    /\ UNCHANGED <<lrcText, lyrics, currentMs>>

ThrottleInit ==
    /\ now = Epoch
    /\ unmounted = FALSE
    /\ currentMetadata = NullPayload
    /\ metadataRefreshIntervalMs \in IntervalChoices
    /\ lastMetadataSentAtRef = 0
    /\ lastSentMetadataSignatureRef = NullSignature
    /\ pendingMetadataRef = NullPayload
    /\ metadataFlushTimerRef = NullTimer
    /\ timers = {}
    /\ mediaSessionMetadata = NullPayload
    /\ lastSubmitted = NullPayload
    /\ lastSubmittedAt = 0
    /\ coalesced = 0
    /\ lastSend = NullSend
    /\ prevSend = NullSend

LrcIdle ==
    /\ lrcText = <<>>
    /\ lyrics = <<>>
    /\ currentMs = 0
    /\ activeLyric = -1
    /\ pc = "idle"

FitIdle ==
    /\ fitText = <<>>
    /\ fitMaxWidth = 0
    /\ fitWindows = <<>>

DwellIdle ==
    /\ scrollDwellStart = DEFAULT_SCROLL_DWELL_START
    /\ scrollDwellEnd = DEFAULT_SCROLL_DWELL_END
    /\ scrollProfileHydrated = FALSE

ComposeIdle ==
    /\ currentTime = 0
    /\ minSongMetadataSeconds = 0
    /\ fieldMapping = DEFAULT_FIELD_MAPPING
    /\ lyricWidthScale = 10
    /\ usesLyricsWindow = FALSE
    /\ windowTexts = NoWindow
    /\ composedPayload = NullPayload

AppIdle ==
    /\ currentTrackId = 0
    /\ audioTime = 0
    /\ loads = {}
    /\ playsStarted = 0
    /\ lyricsTrack = 0
    /\ playedMs = 0
    /\ freshSubmitted = FALSE

ConfigIdle ==
    /\ metadataRefreshIntervalHydrated = FALSE
    /\ minSongMetadataSecondsHydrated = FALSE
    /\ fieldMappingHydrated = FALSE

OrderIdle == submitted = <<>>

RestoreIdle ==
    /\ tracks = {}
    /\ savedPlaybackSnapshot = NullSnapshot
    /\ savedPlaybackSnapshotHydrated = FALSE
    /\ restoreInFlightRef = FALSE
    /\ restoredSnapshotTrackIdRef = 0
    /\ restoreCalls = <<>>
    /\ restorePromises = {}

RestIdle ==
    /\ FitIdle /\ DwellIdle /\ ComposeIdle /\ AppIdle /\ ConfigIdle /\ OrderIdle
    /\ RestoreIdle

Init == ThrottleInit /\ LrcIdle /\ RestIdle

DoLoadMetadata ==
    \E m \in TrackMetadatas, p \in Payloads : LoadMetadata(m, p)

DoRender == \E p \in Payloads : Render(p)

DoChangeInterval == \E i \in IntervalChoices : ChangeInterval(i)

DoTimerFire == \E t \in timers : TimerFire(t)

FixedNext ==
    \/ DoLoadMetadata /\ UNCHANGED <<lrcVars, restVars>>
    \/ DoRender /\ UNCHANGED <<lrcVars, restVars>>
    \/ DoTimerFire /\ UNCHANGED <<lrcVars, restVars>>
    \/ Unmount /\ UNCHANGED <<lrcVars, restVars>>
    \/ Advance /\ UNCHANGED <<lrcVars, restVars>>

Next ==
    \/ FixedNext
    \/ DoChangeInterval /\ UNCHANGED <<lrcVars, restVars>>

\* the throttler with live reconfiguration of the interval
Spec == Init /\ [][Next]_vars

\* the throttler with the interval fixed at its initial value
SpecFixed == Init /\ [][FixedNext]_vars

\* parseLrc on texts put together from at most MaxFragments fragments
LrcInit ==
    /\ ThrottleInit
    /\ metadataRefreshIntervalMs = 2
    /\ \E pieces \in FragmentLists : lrcText = Concat(pieces)
    /\ lyrics = <<>>
    /\ currentMs = 0
    /\ activeLyric = -1
    /\ pc = "text"
    /\ RestIdle

LrcNext == Parse /\ UNCHANGED <<throttleVars, restVars>>

SpecLrc == LrcInit /\ [][LrcNext]_vars

\* activeLyricIndex on every sorted timeline and position within the bounds
ResolverInit ==
    /\ ThrottleInit
    /\ metadataRefreshIntervalMs = 2
    /\ lrcText = <<>>
    /\ lyrics \in SortedTimelines
    /\ currentMs \in 0..(MaxLineTime + 1)
    /\ activeLyric = -1
    /\ pc = "timeline"
    /\ RestIdle

ResolverNext == Resolve /\ UNCHANGED <<throttleVars, restVars>>

SpecResolver == ResolverInit /\ [][ResolverNext]_vars

\* parseLrc on texts with white space and empty lines
LrcBlankInit ==
    /\ ThrottleInit
    /\ metadataRefreshIntervalMs = 2
    /\ \E pieces \in BlankFragmentLists : lrcText = Concat(pieces)
    /\ lyrics = <<>>
    /\ currentMs = 0
    /\ activeLyric = -1
    /\ pc = "text"
    /\ RestIdle

SpecLrcBlank == LrcBlankInit /\ [][LrcNext]_vars

\* buildFittingWindows on every text and width budget within the bounds
FitterInit ==
    /\ ThrottleInit
    /\ metadataRefreshIntervalMs = 2
    /\ lrcText = <<>>
    /\ lyrics = <<>>
    /\ currentMs = 0
    /\ activeLyric = -1
    /\ pc = "fit"
    /\ fitText \in FitTexts
    /\ fitMaxWidth \in 0..MaxWidth
    /\ fitWindows = <<>>
    /\ DwellIdle
    /\ ComposeIdle
    /\ AppIdle
    /\ ConfigIdle
    /\ OrderIdle
    /\ RestoreIdle

FitterNext ==
    Fit /\ UNCHANGED <<throttleVars, configVars, orderVars, restoreVars, dwellVars, composeVars, appVars>>

\* the dwell profile under hydration and slider changes, in any order
DwellInit ==
    /\ ThrottleInit
    /\ metadataRefreshIntervalMs = 2
    /\ LrcIdle
    /\ FitIdle
    /\ DwellIdle
    /\ ComposeIdle
    /\ AppIdle
    /\ ConfigIdle
    /\ OrderIdle
    /\ RestoreIdle

DwellNext ==
    \/ (\E storedStart \in DwellInputs, storedEnd \in DwellInputs :
           HydrateScrollProfile(storedStart, storedEnd))
          /\ UNCHANGED <<throttleVars, configVars, orderVars, restoreVars, lrcVars, fitVars, composeVars, appVars>>
    \/ HydrateNoProfile /\ UNCHANGED <<throttleVars, configVars, orderVars, restoreVars, lrcVars, fitVars, composeVars, appVars>>
    \/ (\E nextValue \in DwellInputs : handleScrollDwellStartChange(nextValue))
          /\ UNCHANGED <<throttleVars, configVars, orderVars, restoreVars, lrcVars, fitVars, composeVars, appVars>>
    \/ (\E nextValue \in DwellInputs : handleScrollDwellEndChange(nextValue))
          /\ UNCHANGED <<throttleVars, configVars, orderVars, restoreVars, lrcVars, fitVars, composeVars, appVars>>

SpecDwell == DwellInit /\ [][DwellNext]_vars

\* one render for every timeline, position and configuration in the bounds
ComposeInit ==
    /\ now = Epoch
    /\ unmounted = FALSE
    /\ currentMetadata \in ComposeMetadatas
    /\ metadataRefreshIntervalMs = 2
    /\ lastMetadataSentAtRef = 0
    /\ lastSentMetadataSignatureRef = NullSignature
    /\ pendingMetadataRef = NullPayload
    /\ metadataFlushTimerRef = NullTimer
    /\ timers = {}
    /\ mediaSessionMetadata = NullPayload
    /\ lastSubmitted = NullPayload
    /\ lastSubmittedAt = 0
    /\ coalesced = 0
    /\ lastSend = NullSend
    /\ prevSend = NullSend
    /\ lrcText = <<>>
    /\ lyrics \in ComposeTimelines
    /\ currentMs = 0
    /\ activeLyric = -1
    /\ pc = "compose"
    /\ FitIdle
    /\ DwellIdle
    /\ currentTime \in Positions
    /\ minSongMetadataSeconds \in HoldChoices
    /\ fieldMapping \in FieldMappings
    /\ lyricWidthScale \in ScaleChoices
    /\ usesLyricsWindow = FALSE
    /\ windowTexts = NoWindow
    /\ composedPayload = NullPayload
    /\ AppIdle
    /\ ConfigIdle
    /\ OrderIdle
    /\ RestoreIdle

ComposeNext ==
    Compose /\ UNCHANGED <<throttleVars, configVars, orderVars, restoreVars, fitVars, dwellVars, appVars>>

SpecCompose == ComposeInit /\ [][ComposeNext]_vars

\* track changes, ticks and seeks with the throttler, at a fixed interval
AppInit ==
    /\ ThrottleInit
    /\ metadataRefreshIntervalMs = 2
    /\ lrcText = <<>>
    /\ lyrics = <<>>
    /\ currentMs = 0
    /\ activeLyric = -1
    /\ pc = "app"
    /\ FitIdle
    /\ DwellIdle
    /\ currentTime = 0
    /\ minSongMetadataSeconds = 1000
    /\ fieldMapping = DEFAULT_FIELD_MAPPING
    /\ lyricWidthScale = 10
    /\ usesLyricsWindow = FALSE
    /\ windowTexts = NoWindow
    /\ composedPayload = NullPayload
    /\ AppIdle
    /\ ConfigIdle
    /\ OrderIdle
    /\ RestoreIdle

AppNext ==
    \/ \E track \in Tracks, start \in AppPositions : PlayTrack(track, start)
    \/ \E load \in loads : PlayTrackStart(load)
    \/ \E load \in loads : PlayTrackMetadata(load, TRUE)
    \/ \E load \in loads : PlayTrackMetadata(load, FALSE)
    \/ \E load \in loads : PlayTrackLyrics(load)
    \/ \E position \in AppPositions : Tick(position)
    \/ \E seekTime \in AppPositions : SeekTo(seekTime)
    \/ DoTimerFire /\ UNCHANGED <<lrcVars, restVars>>
    \/ now < Epoch + MaxSession /\ Advance /\ UNCHANGED <<lrcVars, restVars>>

SpecApp == AppInit /\ [][AppNext]_vars

\* the renders of a session with the clock of the throttler standing still:
\* the plays, loads, ticks and seeks of AppNext
RenderNext ==
    \/ \E track \in Tracks, start \in AppPositions : PlayTrack(track, start)
    \/ \E load \in loads : PlayTrackStart(load)
    \/ \E load \in loads : PlayTrackMetadata(load, TRUE)
    \/ \E load \in loads : PlayTrackMetadata(load, FALSE)
    \/ \E load \in loads : PlayTrackLyrics(load)
    \/ \E position \in AppPositions : Tick(position)
    \/ \E seekTime \in AppPositions : SeekTo(seekTime)

SpecRender == AppInit /\ [][RenderNext]_vars

\* the settings panel before any track is loaded: the stored interval and
\* hold arrive in either order, between moves of the two sliders
ConfigInit ==
    /\ now = Epoch
    /\ unmounted = FALSE
    /\ currentMetadata = NullPayload
    /\ metadataRefreshIntervalMs = DEFAULT_METADATA_REFRESH_INTERVAL_MS
    /\ lastMetadataSentAtRef = 0
    /\ lastSentMetadataSignatureRef = NullSignature
    /\ pendingMetadataRef = NullPayload
    /\ metadataFlushTimerRef = NullTimer
    /\ timers = {}
    /\ mediaSessionMetadata = NullPayload
    /\ lastSubmitted = NullPayload
    /\ lastSubmittedAt = 0
    /\ coalesced = 0
    /\ lastSend = NullSend
    /\ prevSend = NullSend
    /\ LrcIdle
    /\ FitIdle
    /\ DwellIdle
    /\ currentTime = 0
    /\ minSongMetadataSeconds = DEFAULT_MIN_SONG_METADATA_SECONDS
    /\ fieldMapping = DEFAULT_FIELD_MAPPING
    /\ lyricWidthScale = 10
    /\ usesLyricsWindow = FALSE
    /\ windowTexts = NoWindow
    /\ composedPayload = NullPayload
    /\ AppIdle
    /\ ConfigIdle
    /\ OrderIdle
    /\ RestoreIdle

ConfigNext ==
    \/ \E stored \in StoredIntervals : HydrateInterval(stored)
          /\ UNCHANGED <<lrcVars, fitVars, dwellVars, composeVars, appVars, orderVars, restoreVars>>
    \/ HydrateNoInterval
          /\ UNCHANGED <<lrcVars, fitVars, dwellVars, composeVars, appVars, orderVars, restoreVars>>
    \/ \E stored \in StoredMinSeconds : HydrateMinSeconds(stored)
          /\ UNCHANGED <<throttleVars, lrcVars, fitVars, dwellVars, appVars, orderVars, restoreVars>>
    \/ HydrateNoMinSeconds
          /\ UNCHANGED <<throttleVars, lrcVars, fitVars, dwellVars, appVars, orderVars, restoreVars>>
    \/ \E value \in IntervalSliderValues : ChangeInterval(value)
          /\ UNCHANGED <<lrcVars, restVars>>
    \/ \E value \in MinSecondsSliderValues : ChangeMinSeconds(value)
          /\ UNCHANGED <<throttleVars, lrcVars, fitVars, dwellVars, appVars, orderVars, restoreVars>>
    \/ \E stored \in StoredMappings : HydrateFieldMapping(stored)
          /\ UNCHANGED <<throttleVars, lrcVars, fitVars, dwellVars, appVars, orderVars, restoreVars>>
    \/ HydrateNoFieldMapping
          /\ UNCHANGED <<throttleVars, lrcVars, fitVars, dwellVars, appVars, orderVars, restoreVars>>
    \/ \E field \in MetadataFields, value \in LyricLineRoles :
          ChangeFieldMapping(field, value)
          /\ UNCHANGED <<throttleVars, lrcVars, fitVars, dwellVars, appVars, orderVars, restoreVars>>

SpecConfig == ConfigInit /\ [][ConfigNext]_vars

\* the throttler with every candidate numbered in the order of submission
MaxSubmissions == 3

\* the candidates a render may compose, carrying the next serial number
Candidates ==
    { [title |-> p.title, artist |-> p.artist, album |-> p.album,
       serial |-> Len(submitted) + 1] : p \in Payloads }

LoadMetadataInOrder ==
    /\ Len(submitted) < MaxSubmissions
    /\ \E m \in TrackMetadatas, p \in Candidates :
          /\ LoadMetadata(m, p)
          /\ submitted' = Append(submitted, p)

\* without track metadata the effect returns before it composes a candidate
RenderInOrder ==
    /\ Len(submitted) < MaxSubmissions
    /\ \E p \in Candidates :
          /\ Render(p)
          /\ submitted' = IF currentMetadata # NullPayload
                          THEN Append(submitted, p) ELSE submitted

\* what the numbered throttler leaves alone
orderRest == <<lrcVars, fitVars, dwellVars, composeVars, appVars, configVars,
               restoreVars>>

OrderNext ==
    \/ LoadMetadataInOrder /\ UNCHANGED orderRest
    \/ RenderInOrder /\ UNCHANGED orderRest
    \/ DoChangeInterval /\ UNCHANGED <<lrcVars, restVars>>
    \/ DoTimerFire /\ UNCHANGED <<lrcVars, restVars>>
    \/ Unmount /\ UNCHANGED <<lrcVars, restVars>>
    \/ Advance /\ UNCHANGED <<lrcVars, restVars>>

SpecOrder == Init /\ [][OrderNext]_vars

\* the start of a session: the stored snapshot arrives and the directory is
\* scanned, in either order, and scanned again
RestoreNext ==
    \/ \E stored \in StoredSnapshots : HydrateSnapshot(stored)
          /\ UNCHANGED <<throttleVars, lrcVars, fitVars, dwellVars, composeVars, appVars, configVars, orderVars>>
    \/ HydrateNoSnapshot
          /\ UNCHANGED <<throttleVars, lrcVars, fitVars, dwellVars, composeVars, appVars, configVars, orderVars>>
    \/ \E flatTracks \in SUBSET Tracks : ScanTracks(flatTracks)
          /\ UNCHANGED <<throttleVars, lrcVars, fitVars, dwellVars, composeVars, appVars, configVars, orderVars>>
    \/ \E call \in restorePromises : RestoreSettled(call)
          /\ UNCHANGED <<throttleVars, lrcVars, fitVars, dwellVars, composeVars, appVars, configVars, orderVars>>

SpecRestore == Init /\ [][RestoreNext]_vars

\* one render of a line that scrolls: a line of one, two or three windows at
\* one second, alone or followed by a line 4000 ms or 200 ms later, at a
\* narrow width, under every dwell profile in twentieths that keeps the
\* invariant
MaxScrollSteps == 40

ScrollTexts == { <<"i">>, <<"M", "i">>, <<"i", "M", "i", "i">> }

ScrollTimelines ==
    { << [timeMs |-> 1000, text |-> text] >> : text \in ScrollTexts }
    \cup { << [timeMs |-> 1000, text |-> text],
              [timeMs |-> 1000 + gap, text |-> <<"i">>] >> :
               text \in ScrollTexts, gap \in {200, 4000} }

ScrollPositions == { 1000 + 100 * i : i \in 0..MaxScrollSteps }

ScrollProfiles ==
    { profile \in { 2 * i : i \in 0..(DwellCap \div 2) }
                      \X { 2 * i : i \in 0..(DwellCap \div 2) } :
        profile[1] + profile[2] <= DwellOne - MIN_SCROLL_PORTION }

ScrollInit ==
    /\ now = Epoch
    /\ unmounted = FALSE
    /\ currentMetadata = TrackMetadata(1)
    /\ metadataRefreshIntervalMs = 2
    /\ lastMetadataSentAtRef = 0
    /\ lastSentMetadataSignatureRef = NullSignature
    /\ pendingMetadataRef = NullPayload
    /\ metadataFlushTimerRef = NullTimer
    /\ timers = {}
    /\ mediaSessionMetadata = NullPayload
    /\ lastSubmitted = NullPayload
    /\ lastSubmittedAt = 0
    /\ coalesced = 0
    /\ lastSend = NullSend
    /\ prevSend = NullSend
    /\ lrcText = <<>>
    /\ lyrics \in ScrollTimelines
    /\ currentMs = 0
    /\ activeLyric = -1
    /\ pc = "compose"
    /\ FitIdle
    /\ \E profile \in ScrollProfiles :
          /\ scrollDwellStart = profile[1]
          /\ scrollDwellEnd = profile[2]
    /\ scrollProfileHydrated = TRUE
    /\ currentTime \in ScrollPositions
    /\ minSongMetadataSeconds = 0
    /\ fieldMapping = DEFAULT_FIELD_MAPPING
    /\ lyricWidthScale = 1
    /\ usesLyricsWindow = FALSE
    /\ windowTexts = NoWindow
    /\ composedPayload = NullPayload
    /\ AppIdle
    /\ ConfigIdle
    /\ OrderIdle
    /\ RestoreIdle

\* the furthest one tick moves the position, in milliseconds
MaxScrollAdvance == 200

\* the tick interval reads a later position: setCurrentTime, then the render
ScrollTick(position) ==
    /\ pc = "composed"
    /\ position > currentTime
    /\ position - currentTime <= MaxScrollAdvance
    /\ currentTime' = position
    /\ LET active == activeLyricIndex(lyrics, currentTimeMs(position))
           uses == shouldUseLyricsWindow(lyrics, position,
                                         minSongMetadataSeconds)
           window == lyricWindow(lyrics, active,
                                 lyricWidthLimitPx(lyricWidthScale),
                                 position, scrollDwellStart, scrollDwellEnd)
       IN  /\ activeLyric' = active
           /\ usesLyricsWindow' = uses
           /\ windowTexts' = window
           /\ composedPayload' = ComposePayload(uses, window, fieldMapping,
                                                currentMetadata)
    /\ UNCHANGED <<lrcText, lyrics, currentMs, pc, minSongMetadataSeconds,
                   fieldMapping, lyricWidthScale>>

ScrollNext ==
    \/ ComposeNext
    \/ \E position \in ScrollPositions : ScrollTick(position)
          /\ UNCHANGED <<throttleVars, configVars, orderVars, restoreVars, fitVars,
                         dwellVars, appVars>>

SpecScroll == ScrollInit /\ [][ScrollNext]_vars

SpecFitter == FitterInit /\ [][FitterNext]_vars

----------------------------------------------------------------------------
(* Claims about the publish throttler                                      *)

\* C1: with the minimum interval fixed, any two consecutive actual sends,
\* immediate or deferred, are at least the interval apart.
C1_SendSpacing ==
    prevSend # NullSend =>
        lastSend.at - prevSend.at >= metadataRefreshIntervalMs

\* a deferred send exactly one interval after an earlier send
C1_Witness ==
    /\ prevSend # NullSend
    /\ lastSend.kind = "deferred"
    /\ lastSend.at - prevSend.at = metadataRefreshIntervalMs

\* C2: before teardown, a candidate that is stored and not yet sent has a live
\* timer that sends it no later than its submission time plus the minimum
\* interval.
C2_PendingSentWithinInterval ==
    (~unmounted /\ pendingMetadataRef # NullPayload) =>
        \E t \in timers :
            /\ t.id = metadataFlushTimerRef
            /\ t.due <= lastSubmittedAt + metadataRefreshIntervalMs

C4_TrailingEdge ==
    /\ (metadataFlushTimerRef # NullTimer => pendingMetadataRef = lastSubmitted)
    /\ (lastSend # NullSend /\ lastSend.kind = "deferred" =>
            lastSend.payload = lastSend.latest)

\* a deferred send after two different candidates were stored while armed
C4_Witness ==
    /\ lastSend # NullSend
    /\ lastSend.kind = "deferred"
    /\ lastSend.coalesced = 2
    /\ prevSend # NullSend
    /\ lastSend.at = prevSend.at + metadataRefreshIntervalMs

\* C5: no actual send carries a payload textually identical to the payload of
\* the immediately preceding send.
C5_SendsOnlyOnChange ==
    (lastSend # NullSend /\ prevSend # NullSend) =>
        Signature(lastSend.payload) # Signature(prevSend.payload)

\* C6: at most one deferred-send timer is outstanding.
C6_SingleTimer == Cardinality(timers) <= 1

\* a second candidate has arrived while the timer was armed
C6_Witness ==
    /\ metadataFlushTimerRef # NullTimer
    /\ coalesced = 2
    /\ Cardinality(timers) = 1

\* C7: teardown leaves no live timer, and after teardown nothing is published.
C7_TeardownSilent ==
    /\ [](unmounted => timers = {})
    /\ [][unmounted => UNCHANGED <<mediaSessionMetadata, lastSend, prevSend,
                                   lastMetadataSentAtRef,
                                   lastSentMetadataSignatureRef>>]_vars

\* torn down with a payload pending, and the clock is past the flush time
C7_Witness ==
    /\ unmounted
    /\ pendingMetadataRef # NullPayload
    /\ metadataFlushTimerRef # NullTimer
    /\ now > lastMetadataSentAtRef + metadataRefreshIntervalMs

----------------------------------------------------------------------------
(* Claims about the resolver and the parser                                *)

\* C8: on a timeline sorted ascending by timeMs, activeLyricIndex returns the
\* greatest index whose timeMs is at most the position, and -1 exactly when
\* there is none; a position equal to a line's timeMs selects that line.
C8_ResolverGreatestIndex ==
    pc = "resolved" =>
        LET atOrBefore == { i \in 0..(Len(lyrics) - 1) :
                                lyrics[i + 1].timeMs <= currentMs }
        IN  IF atOrBefore = {}
            THEN activeLyric = -1
            ELSE /\ activeLyric \in atOrBefore
                 /\ \A i \in atOrBefore : i <= activeLyric

\* the position equals the timeMs of two duplicate lines, more lines follow
C8_Witness ==
    /\ pc = "resolved"
    /\ activeLyric >= 1
    /\ activeLyric < Len(lyrics) - 1
    /\ lyrics[activeLyric + 1].timeMs = currentMs
    /\ lyrics[activeLyric].timeMs = currentMs

EntriesAt(entries, timeMs) ==
    LET at(entry) == entry.timeMs = timeMs
    IN  SelectSeq(entries, at)

\* C9: a parsed timeline is sorted ascending by timeMs, and its entries of
\* equal timeMs are in the order in which they were emitted.
C9_SortedStable ==
    pc = "parsed" =>
        LET emitted == ParsedEntries(SplitLines(lrcText, <<>>))
        IN  /\ IsSorted(lyrics)
            /\ Len(lyrics) = Len(emitted)
            /\ \A k \in 1..Len(emitted) :
                   EntriesAt(lyrics, emitted[k].timeMs)
                       = EntriesAt(emitted, emitted[k].timeMs)

\* two source lines with the same timestamp and different texts
C9_Witness ==
    /\ pc = "parsed"
    /\ \E k \in 1..(Len(lyrics) - 1) :
           /\ lyrics[k].timeMs = lyrics[k + 1].timeMs
           /\ lyrics[k].text # lyrics[k + 1].text

\* the number of places of the text where one of the fragments stands
Occurrences(text, fragments) ==
    Cardinality({ i \in 1..Len(text) :
                    \E f \in fragments :
                        /\ i + Len(f) - 1 <= Len(text)
                        /\ SubSeq(text, i, i + Len(f) - 1) = f })

BlankLineTags(text) ==
    { i \in 1..Len(text) :
        /\ \E f \in BlankTagFragments :
               /\ i + Len(f) - 1 <= Len(text)
               /\ SubSeq(text, i, i + Len(f) - 1) = f
        /\ ~ \E j \in 1..Len(text) :
               /\ text[j] = "a"
               /\ \A k \in Min(i, j)..Max(i, j) : text[k] # "\n" }

\* C11: no entry of a parsed timeline has blank text, and the tags of a line
\* that is empty after stripping and trimming yield entries with the ellipsis.
C11_NeverBlank ==
    pc = "parsed" =>
        /\ \A k \in 1..Len(lyrics) : trim(lyrics[k].text) # <<>>
        /\ LET isEllipsis(entry) == entry.text = <<".", ".", ".">>
           IN  Len(SelectSeq(lyrics, isEllipsis))
                   = Cardinality(BlankLineTags(lrcText))

\* a line of a tag followed by white space only yields the ellipsis
C11_Witness ==
    /\ pc = "parsed"
    /\ Len(lyrics) >= 1
    /\ \A k \in 1..Len(lyrics) : lyrics[k].text = <<".", ".", ".">>
    /\ \E i \in 1..Len(lrcText) : lrcText[i] = " "
    /\ \E i \in 1..Len(lrcText) : lrcText[i] = "\r"

----------------------------------------------------------------------------
(* Claims about the window fitter                                          *)

\* the positions of the text that some window, read as a stretch of the
\* text, lies over
CoveredPositions(text, windows) ==
    { p \in 1..Len(text) :
        \E k \in 1..Len(windows), a \in 1..p :
            /\ a + Len(windows[k]) - 1 >= p
            /\ a + Len(windows[k]) - 1 <= Len(text)
            /\ SubSeq(text, a, a + Len(windows[k]) - 1) = windows[k] }

\* C12 as stated: every grapheme of the input appears in at least one window.
C12_Coverage ==
    pc = "fitted" => CoveredPositions(fitText, fitWindows) = 1..Len(fitText)

\* C12: every grapheme of the input that is not white space appears in at
\* least one window, a grapheme that alone exceeds the width budget included.
C12_NonBlankCoverage ==
    pc = "fitted" =>
        \A p \in 1..Len(fitText) :
            fitText[p] \notin WhiteSpace
                => p \in CoveredPositions(fitText, fitWindows)

\* a text that does not fit, with a glyph wider than the budget and a space
C12_Witness ==
    /\ pc = "fitted"
    /\ fitMaxWidth = 2
    /\ fitText = <<"i", " ", "M", "i">>
    /\ Len(fitWindows) > 1
    /\ \E k \in 1..Len(fitWindows) : fitWindows[k] = <<"M">>

\* C13: when the left-trimmed text fits the budget, the result is exactly one
\* window, the left-trimmed text.
C13_FittingTextIsOneWindow ==
    (pc = "fitted" /\ measureWidth(trimStart(fitText)) <= fitMaxWidth)
        => fitWindows = << trimStart(fitText) >>

\* a fitting text with leading white space
C13_Witness ==
    /\ pc = "fitted"
    /\ fitText = <<" ", "i", " ", "i">>
    /\ fitMaxWidth = 3
    /\ fitWindows = << <<"i", " ", "i">> >>

----------------------------------------------------------------------------
(* Claims about the configuration                                          *)

----------------------------------------------------------------------------
(* Claims about the payload composition                                    *)

\* C15: the payload is sourced from the lyric window exactly when the
\* timeline is non-empty and the position is at or past the later of the
\* first lyric's time and the minimum hold; otherwise from the track's
\* static metadata.
C15_HoldPolicy ==
    pc = "composed" =>
        LET held ==
                \/ Len(lyrics) = 0
                \/ currentTime < lyrics[1].timeMs
                \/ currentTime < minSongMetadataSeconds
            source(field) ==
                IF held THEN currentMetadata[field]
                ELSE windowTexts[fieldMapping[field]]
        IN  /\ usesLyricsWindow = ~held
            /\ \A field \in {"title", "artist", "album"} :
                   composedPayload[field]
                       = metadataFieldValueOrPlaceholder(source(field))

\* the hold is over and the lyric window is the source
C15_Witness ==
    /\ pc = "composed"
    /\ usesLyricsWindow
    /\ minSongMetadataSeconds = 1000
    /\ Len(lyrics) = 2
    /\ lyrics[1].timeMs > minSongMetadataSeconds
    /\ activeLyric = 1
    /\ composedPayload.artist = lyrics[2].text

\* C16: when the resolver returns -1 the payload uses the static metadata
\* for all three slots; lyric-window mode is never active with index -1.
C16_NoLyricModeBeforeFirstLine ==
    (pc = "composed" /\ activeLyric = -1) =>
        /\ ~usesLyricsWindow
        /\ \A field \in {"title", "artist", "album"} :
               composedPayload[field]
                   = metadataFieldValueOrPlaceholder(currentMetadata[field])

\* C17: every payload has a non-empty title, artist and album: a blank
\* source text is replaced by the single-space placeholder and a non-blank
\* source text passes through unchanged.
C17_NeverEmptyField ==
    pc = "composed" =>
        \A field \in {"title", "artist", "album"} :
            LET source == IF usesLyricsWindow
                          THEN windowTexts[fieldMapping[field]]
                          ELSE currentMetadata[field]
                blank == \A i \in 1..Len(source) : source[i] \in WhiteSpace
            IN  /\ Len(composedPayload[field]) > 0
                /\ blank => composedPayload[field] = <<" ">>
                /\ ~blank => composedPayload[field] = source

\* a lyric payload with an empty previous line next to a non-blank one
C17_Witness ==
    /\ pc = "composed"
    /\ usesLyricsWindow
    /\ activeLyric = 0
    /\ fieldMapping = DEFAULT_FIELD_MAPPING
    /\ windowTexts.previous = <<>>
    /\ composedPayload.title = <<" ">>
    /\ composedPayload.artist = <<"i">>

----------------------------------------------------------------------------
(* Claims about track changes                                              *)

\* C18: once a candidate payload composed for the newly selected track has
\* been submitted to the throttler, no payload composed for the previous
\* track is sent afterwards.
C18_NoOldTrackSend ==
    [][ (freshSubmitted /\ currentTrackId' = currentTrackId
                        /\ lastSend' # lastSend)
            => ComposedFor(lastSend'.payload, currentTrackId') ]_vars

\* C19: from the moment a track change resets the playback position, every
\* step that sets the position, the reset included, resolves and composes
\* with the new track's timeline or an empty one.
C19_TimelineOfCurrentTrack ==
    [][ currentTime' # currentTime
            => (lyrics' = <<>> \/ lyricsTrack' = currentTrackId') ]_vars

\* C20: lyric-window mode is not active until at least minSongMetadataSeconds
\* have elapsed since the track was started and the first lyric timestamp
\* has been reached.
C20_HoldSinceTrackStart ==
    usesLyricsWindow =>
        /\ playedMs >= minSongMetadataSeconds
        /\ currentTime >= lyrics[1].timeMs

\* C21: after hydration and any sequence of moves of the two sliders the
\* interval the throttler applies lies in [10, 5000] ms and the metadata hold
\* in [0, 30] s.
C21_ConfigurationClamped ==
    /\ MIN_METADATA_REFRESH_INTERVAL_MS <= metadataRefreshIntervalMs
    /\ metadataRefreshIntervalMs <= MAX_METADATA_REFRESH_INTERVAL_MS
    /\ MIN_SONG_METADATA_SECONDS <= minSongMetadataSeconds
    /\ minSongMetadataSeconds <= MAX_SONG_METADATA_SECONDS

\* both settings hydrated, the interval at its upper and the hold at its
\* lower limit
C21_Witness ==
    /\ metadataRefreshIntervalHydrated
    /\ minSongMetadataSecondsHydrated
    /\ metadataRefreshIntervalMs = MAX_METADATA_REFRESH_INTERVAL_MS
    /\ minSongMetadataSeconds = MIN_SONG_METADATA_SECONDS

\* C22: when the interval slider moves while a deferred send is armed or
\* between sends, every actual send still comes at least the interval
\* configured at the moment of that send after the send before it.
C22_SpacingAtSendTime ==
    [][(lastSend' # lastSend /\ lastSend # NullSend) =>
           lastSend'.at - lastSend.at >= metadataRefreshIntervalMs']_vars

\* a run of the media-session effect with candidate p and track metadata
Submits(p) ==
    \/ Render(p) /\ currentMetadata # NullPayload
    \/ \E m \in TrackMetadatas : LoadMetadata(m, p)
    \/ p = lastSubmitted /\ currentMetadata # NullPayload
          /\ \E i \in IntervalChoices : ChangeInterval(i)

\* C23: a candidate whose text equals the last payload sent, arriving while
\* nothing is pending, causes no send and leaves the send time, the sent
\* signature, the pending payload and the timer as they were.
C23_DuplicateIsNoOp ==
    [][\A p \in Payloads :
          (/\ Signature(p) = lastSentMetadataSignatureRef
           /\ pendingMetadataRef = NullPayload
           /\ Submits(p))
          => UNCHANGED <<lastMetadataSentAtRef, lastSentMetadataSignatureRef,
                         pendingMetadataRef, metadataFlushTimerRef, timers,
                         mediaSessionMetadata, lastSend, prevSend>>]_vars

\* the last candidate came after the last send, with the text of that send,
\* and was dropped: nothing is pending and no timer is armed
C23_Witness ==
    /\ lastSend # NullSend
    /\ lastSubmittedAt > lastSend.at
    /\ Signature(lastSubmitted) = lastSentMetadataSignatureRef
    /\ pendingMetadataRef = NullPayload
    /\ metadataFlushTimerRef = NullTimer
    /\ lastMetadataSentAtRef = lastSend.at

\* C24: a candidate that is not suppressed and arrives when at least the
\* interval has passed since the last send is itself sent at once, the send
\* time and signature are recorded, and the throttler is idle afterwards: no
\* pending payload, no timer ref, and no live timer left to fire later.
C24_ImmediateSend ==
    [][\A p \in Payloads :
          (/\ ~(/\ Signature(p) = lastSentMetadataSignatureRef
                /\ pendingMetadataRef = NullPayload)
           /\ now - lastMetadataSentAtRef >= metadataRefreshIntervalMs'
           /\ Submits(p))
          => /\ mediaSessionMetadata' = p
             /\ lastMetadataSentAtRef' = now
             /\ lastSentMetadataSignatureRef' = Signature(p)
             /\ lastSend' # lastSend
             /\ lastSend'.at = now
             /\ lastSend'.payload = p
             /\ pendingMetadataRef' = NullPayload
             /\ metadataFlushTimerRef' = NullTimer
             /\ timers' = {}]_vars

\* an immediate send that cancelled an armed timer and dropped its payload
C24_Witness ==
    /\ lastSend # NullSend
    /\ lastSend.kind = "immediate"
    /\ lastSend.coalesced >= 1
    /\ lastSend.at = now
    /\ timers = {}
    /\ metadataFlushTimerRef = NullTimer
    /\ pendingMetadataRef = NullPayload

\* C25: in every state before teardown a deferred-send timer is armed if and
\* only if a pending payload is stored: the ref holds the id of a live timer
\* exactly when pendingMetadataRef is not null, and no other timer is live.
C25_TimerIffPending ==
    ~unmounted =>
        /\ (metadataFlushTimerRef # NullTimer) <=> (pendingMetadataRef # NullPayload)
        /\ \A t \in timers : t.id = metadataFlushTimerRef
        /\ metadataFlushTimerRef # NullTimer =>
               \E t \in timers : t.id = metadataFlushTimerRef

\* a timer is armed for a pending payload that replaced an earlier one
C25_Witness ==
    /\ ~unmounted
    /\ metadataFlushTimerRef # NullTimer
    /\ pendingMetadataRef # NullPayload
    /\ coalesced = 2

\* C26: every payload sent is one of the candidates submitted before, and
\* sends follow the order of submission: a send is never followed by the send
\* of a candidate submitted earlier.
C26_SendsInSubmissionOrder ==
    /\ lastSend # NullSend =>
          /\ lastSend.payload.serial \in 1..Len(submitted)
          /\ submitted[lastSend.payload.serial] = lastSend.payload
          /\ mediaSessionMetadata = lastSend.payload
    /\ prevSend # NullSend =>
          prevSend.payload.serial <= lastSend.payload.serial

\* a deferred send of the newest candidate after an earlier send, with a
\* candidate in between that was overwritten and never sent
C26_Witness ==
    /\ prevSend # NullSend
    /\ lastSend.kind = "deferred"
    /\ lastSend.payload.serial > prevSend.payload.serial + 1
    /\ lastSend.payload = submitted[Len(submitted)]

\* C27: when playTrack is called for one track while an earlier call for
\* another is still awaiting its file, metadata or lyric reads, then once
\* both calls have finished the current metadata and the timeline are those
\* of the track recorded as currentTrackId, in whatever order the awaits
\* completed.
C27_LoadsSettleOnCurrentTrack ==
    (loads = {} /\ currentTrackId # 0) =>
        /\ currentMetadata # NullPayload
        /\ currentMetadata.artworkUrl = currentTrackId
        /\ lyrics # <<>> => lyricsTrack = currentTrackId

\* the tags the grammar matches among the pieces of the texts, with the
\* time each stands for: minutes*60000 + seconds*1000 + the padded fraction
MatchedTags ==
    { [tag |-> <<"[", "0", ":", "0", "1", "]">>, timeMs |-> 1000],
      [tag |-> <<"[", "0", ":", "0", "0", ".", "5", "]">>, timeMs |-> 500],
      [tag |-> <<"[", "0", ":", "7", "5", "]">>, timeMs |-> 75000] }

\* the tag stands at position i of the line
TagAt(line, i, tag) ==
    /\ i + Len(tag) - 1 <= Len(line)
    /\ SubSeq(line, i, i + Len(tag) - 1) = tag

\* the characters of a line outside its matched tags, in order; "..." when
\* none is left (the lines of these texts hold no white space)
TextOutsideTags(line) ==
    LET inTag == { j \in 1..Len(line) :
                     \E m \in MatchedTags :
                         \E i \in Max(1, j - Len(m.tag) + 1)..j :
                             TagAt(line, i, m.tag) }
        keep == (1..Len(line)) \ inTag
        kept == [k \in 1..Cardinality(keep) |->
                    line[CHOOSE j \in keep :
                             Cardinality({ x \in keep : x < j }) = k - 1]]
    IN  IF kept = <<>> THEN <<".", ".", ".">> ELSE kept

\* C28: parseLrc emits one entry per timestamp tag matched on a source line,
\* at minutes*60000 + seconds*1000 + the fraction right-padded to three
\* digits (0 when absent), with the text of that line outside its tags; a
\* line without a tag emits nothing, so the timeline has as many entries as
\* the text has matched tags.
C28_OneEntryPerTag ==
    pc = "parsed" =>
        LET lines == SplitLines(lrcText, <<>>)
            tagsOf(m, text) ==
                { <<n, i>> \in (1..Len(lines)) \X (1..Len(lrcText)) :
                    /\ TagAt(lines[n], i, m.tag)
                    /\ TextOutsideTags(lines[n]) = text }
            entriesOf(m, text) ==
                { k \in 1..Len(lyrics) :
                    lyrics[k].timeMs = m.timeMs /\ lyrics[k].text = text }
            texts == { TextOutsideTags(lines[n]) : n \in 1..Len(lines) }
                       \cup { lyrics[k].text : k \in 1..Len(lyrics) }
        IN  /\ \A k \in 1..Len(lyrics) :
                  \E m \in MatchedTags : lyrics[k].timeMs = m.timeMs
            /\ \A m \in MatchedTags, text \in texts :
                  Cardinality(entriesOf(m, text)) = Cardinality(tagsOf(m, text))
            /\ Len(lyrics) = Occurrences(lrcText, { m.tag : m \in MatchedTags })

\* a line with two tags, one with a one-digit fraction, and a text, followed
\* by a line without a tag
C28_Witness ==
    /\ pc = "parsed"
    /\ Len(SplitLines(lrcText, <<>>)) = 2
    /\ lyrics = << [timeMs |-> 500, text |-> <<"a">>],
                   [timeMs |-> 1000, text |-> <<"a">>] >>

\* C29: buildFittingWindows never returns two consecutive windows with the
\* same text.
C29_NoConsecutiveDuplicates ==
    pc = "fitted" =>
        \A k \in 1..(Len(fitWindows) - 1) : fitWindows[k] # fitWindows[k + 1]

\* the window from the second start position equals the first one once it
\* is left-trimmed, and is not pushed
C29_Witness ==
    /\ pc = "fitted"
    /\ fitText = <<"i", " ", "i">>
    /\ fitMaxWidth = 1
    /\ fitWindows = << <<"i">> >>

\* the start positions from which the rest of the text, left-trimmed, fits
ReachingStarts(text, maxWidthPx) ==
    { s \in 1..Len(text) :
        measureWidth(trimStart(SubSeq(text, s, Len(text)))) <= maxWidthPx }

\* C30: when the text does not fit, the last window returned ends with the
\* final grapheme of the text, and the scan over the start positions stops at
\* the first one whose greedy window reaches the end of the text: that
\* window, the rest of the text from there, is the last one, and no start
\* position after it adds a window.
C30_TerminalWindow ==
    (/\ pc = "fitted"
     /\ trim(fitText) # <<>>
     /\ measureWidth(trimStart(fitText)) > fitMaxWidth) =>
        LET last == fitWindows[Len(fitWindows)]
            reaching == ReachingStarts(fitText, fitMaxWidth)
            first == CHOOSE s \in reaching : \A r \in reaching : s <= r
            rest == SubSeq(fitText, first, Len(fitText))
        IN  /\ last # <<>>
            /\ last[Len(last)] = fitText[Len(fitText)]
            /\ reaching # {} =>
                  /\ last = IF trimStart(rest) # <<>> THEN trimStart(rest)
                            ELSE rest
                  /\ Len(fitWindows) <= first

\* the scan stops at the second of three start positions
C30_Witness ==
    /\ pc = "fitted"
    /\ fitText = <<"M", "i", "i">>
    /\ fitMaxWidth = 3
    /\ fitWindows = << <<"M">>, <<"i", "i">> >>

\* C31: every window buildFittingWindows returns has no leading white space
\* and measures at most maxWidthPx, except a window of a single grapheme that
\* alone exceeds the budget.
C31_WidthBound ==
    pc = "fitted" =>
        \A k \in 1..Len(fitWindows) :
            LET window == fitWindows[k]
            IN  \/ /\ Len(window) = 1
                   /\ measureWidth(window) > fitMaxWidth
                \/ /\ window = trimStart(window)
                   /\ measureWidth(window) <= fitMaxWidth

-----------------------------------------------------------------------------
(* Claims about the scroll calculator.  Fractions of a line are compared    *)
(* exactly: raw = elapsed / duration, dwell values in fortieths.            *)

\* the duration of the active line: to the next line, 4000 ms for the last
\* line, and never below 300 ms
LineDuration(lines, active) ==
    LET start == lines[active + 1].timeMs
        end == IF active + 1 < Len(lines) THEN lines[active + 2].timeMs
               ELSE start + 4000
    IN  IF end - start >= 300 THEN end - start ELSE 300

\* the end of the scroll portion, in fortieths of the line:
\* min(1 - 0.1, dwellStart + max(0.1, 1 - dwellStart - dwellEnd))
ScrollEnd(dwellStart, dwellEnd) ==
    LET rest == DwellOne - dwellStart - dwellEnd
        portion == IF rest >= MIN_SCROLL_PORTION THEN rest
                   ELSE MIN_SCROLL_PORTION
    IN  IF dwellStart + portion <= DwellOne - MIN_SCROLL_PORTION
        THEN dwellStart + portion ELSE DwellOne - MIN_SCROLL_PORTION

\* index is the one the calculator is specified to select for count windows
\* at elapsed ms into a line of duration ms: 0 up to dwellStart, count - 1
\* from scrollEnd on, and in between the k with
\* k <= mapped * (count - 1) < k + 1
SelectsIndex(index, count, elapsed, duration, dwellStart, dwellEnd) ==
    LET clamped == IF elapsed < 0 THEN 0
                   ELSE IF elapsed > duration THEN duration ELSE elapsed
        scrollEnd == ScrollEnd(dwellStart, dwellEnd)
        scaled == (clamped * DwellOne - dwellStart * duration) * (count - 1)
        unit == duration * (scrollEnd - dwellStart)
    IN  IF count <= 1 THEN index = 0
        ELSE IF clamped * DwellOne <= dwellStart * duration THEN index = 0
        ELSE IF clamped * DwellOne >= scrollEnd * duration
        THEN index = count - 1
        ELSE /\ index \in 0..(count - 1)
             /\ index * unit <= scaled
             /\ \/ scaled < (index + 1) * unit
                \/ index = count - 1

\* the windows of the active line of the render
ActiveWindows ==
    buildFittingWindows(lyrics[activeLyric + 1].text,
                        lyricWidthLimitPx(lyricWidthScale))

\* C32: with lineDuration = max(300, next - active) (4000 for the last line)
\* and raw = clamp(elapsed / lineDuration, 0, 1), the window shown for the
\* active line is the one at index 0 when the line has one window, else at
\* min(count - 1, floor(mapped * (count - 1))), mapped being 0 up to
\* dwellStart, 1 from scrollEnd on and linear in between; with dwell
\* 0.25/0.25, 4000 ms and three windows the index is 0 at 500 ms, 1 at
\* 2000 ms and 2 at 3800 ms.
C32_ScrollIndex ==
    (pc = "composed" /\ activeLyric >= 0) =>
        LET windows == ActiveWindows
            start == lyrics[activeLyric + 1].timeMs
            duration == LineDuration(lyrics, activeLyric)
        IN  /\ \E index \in 0..(Len(windows) - 1) :
                  /\ SelectsIndex(index, Len(windows), currentTime - start,
                                  duration, scrollDwellStart, scrollDwellEnd)
                  /\ windowTexts.current = windows[index + 1]
            /\ (/\ scrollDwellStart = 10
                /\ scrollDwellEnd = 10
                /\ Len(windows) = 3
                /\ duration = 4000
                /\ activeLyric = 0) =>
                  /\ currentTime = 1500 => windowTexts.current = windows[1]
                  /\ currentTime = 3000 => windowTexts.current = windows[2]
                  /\ currentTime = 4800 => windowTexts.current = windows[3]

\* the second of three windows, half way through a line of 4000 ms
C32_Witness ==
    /\ pc = "composed"
    /\ Len(lyrics) = 1
    /\ lyrics[1].text = <<"i", "M", "i", "i">>
    /\ scrollDwellStart = 10
    /\ scrollDwellEnd = 10
    /\ currentTime = 3000
    /\ windowTexts.current = <<"M">>

\* the place of a window among the windows of the active line
IndexOf(windows, window) ==
    CHOOSE k \in 1..Len(windows) : windows[k] = window

\* C33: for every window count and every profile that keeps the dwell
\* invariant the first window is shown at line entry and throughout the
\* dwell-start portion, the final window from raw progress scrollEnd (at
\* most 0.9) until the line ends, and within one line the index never
\* decreases as the position advances.
C33_FirstThenFinalWindow ==
    /\ [](pc = "composed" /\ activeLyric >= 0 =>
            LET windows == ActiveWindows
                elapsed == currentTime - lyrics[activeLyric + 1].timeMs
                duration == LineDuration(lyrics, activeLyric)
                scrollEnd == ScrollEnd(scrollDwellStart, scrollDwellEnd)
            IN  /\ scrollEnd <= DwellOne - MIN_SCROLL_PORTION
                /\ elapsed * DwellOne <= scrollDwellStart * duration =>
                       windowTexts.current = windows[1]
                /\ elapsed * DwellOne >= scrollEnd * duration =>
                       windowTexts.current = windows[Len(windows)])
    /\ [][(pc = "composed" /\ activeLyric >= 0 /\ activeLyric' = activeLyric)
             => IndexOf(ActiveWindows, windowTexts'.current)
                    >= IndexOf(ActiveWindows, windowTexts.current)]_vars

\* C34: for every dwell profile reached through hydration and the dwell
\* setters the scroll interval scrollEnd - dwellStart that the calculator
\* uses is at least minScrollPortion (0.1) of the line.
C34_MinimumScrollInterval ==
    ScrollEnd(scrollDwellStart, scrollDwellEnd) - scrollDwellStart
        >= MIN_SCROLL_PORTION

\* a requested fraction limited to [0, 0.9]
Limited(v) == IF v < 0 THEN 0 ELSE IF v > DwellCap THEN DwellCap ELSE v

\* what setting one fraction to v may do: own is the fraction set, other
\* the fraction of the opposite end of the line
FavoursSetValue(v, ownAfter, otherBefore, otherAfter) ==
    /\ ownAfter = Limited(v)
    /\ \/ otherAfter = otherBefore
       \/ otherAfter = DwellCap - ownAfter /\ otherAfter < otherBefore
    /\ ownAfter + otherBefore <= DwellCap => otherAfter = otherBefore

\* C35: setting dwell-start to v leaves dwellStart = clamp(v, 0, 0.9) and
\* dwellEnd either unchanged or lowered to 0.9 - dwellStart, never raised,
\* and unchanged whenever the sum already respects the limit; symmetrically
\* for setting dwell-end.
C35_SetValueFavoured ==
    [][\A v \in DwellInputs :
          /\ handleScrollDwellStartChange(v) =>
                 FavoursSetValue(v, scrollDwellStart', scrollDwellEnd,
                                 scrollDwellEnd')
          /\ handleScrollDwellEndChange(v) =>
                 FavoursSetValue(v, scrollDwellEnd', scrollDwellStart,
                                 scrollDwellStart')]_vars

\* the end dwell is at its cap and the start dwell at 0: a request for an
\* end dwell above the range lowers a positive start dwell to this
C35_Witness ==
    /\ scrollProfileHydrated
    /\ scrollDwellEnd = DwellCap
    /\ scrollDwellStart = 0

\* the defaults the hydration falls back to
FallbackRole(field) ==
    CASE field = "title" -> "previous"
      [] field = "artist" -> "current"
      [] field = "album" -> "next"

\* C36: after hydration, where a missing stored key falls back to the
\* default (title to previous, artist to current, album to next), and after
\* any sequence of mapping changes each of title, artist and album is bound
\* to exactly one role of previous, current and next, and changing the
\* binding of one field leaves the other two bindings unchanged.
C36_MappingTotal ==
    /\ [](/\ DOMAIN fieldMapping = {"title", "artist", "album"}
          /\ \A field \in DOMAIN fieldMapping :
                 fieldMapping[field] \in {"previous", "current", "next"})
    /\ [][/\ fieldMappingHydrated' # fieldMappingHydrated =>
                 \A stored \in StoredMappings :
                     HydrateFieldMapping(stored) =>
                         \A field \in MetadataFields :
                             fieldMapping'[field] =
                                 IF stored[field] = MissingRole
                                 THEN FallbackRole(field) ELSE stored[field]
          /\ fieldMapping' # fieldMapping =>
                 \A field \in MetadataFields, value \in LyricLineRoles :
                     ChangeFieldMapping(field, value) =>
                         /\ fieldMapping'[field] = value
                         /\ \A other \in MetadataFields \ {field} :
                                fieldMapping'[other] = fieldMapping[other]]_vars

\* title is bound to the role artist has, album keeps the default
C36_Witness ==
    /\ fieldMappingHydrated
    /\ fieldMapping.title = "current"
    /\ fieldMapping.artist = "current"
    /\ fieldMapping.album = "next"

----------------------------------------------------------------------------
(* Claims about the roles of the lyric window                              *)

\* the fitted windows of line k of the timeline, counted from 1
WindowsOfLine(k) ==
    buildFittingWindows(lyrics[k].text, lyricWidthLimitPx(lyricWidthScale))

\* text is what the claim gives the slot bound to role
RoleShows(role, text) ==
    LET line == activeLyric + 1
        elapsed == currentTime - lyrics[line].timeMs
        duration == LineDuration(lyrics, activeLyric)
    IN  CASE role = "previous" ->
                 IF line = 1 THEN text = <<" ">>
                 ELSE text = WindowsOfLine(line - 1)[Len(WindowsOfLine(line - 1))]
          [] role = "next" ->
                 IF line = Len(lyrics) THEN text = <<" ">>
                 ELSE text = WindowsOfLine(line + 1)[1]
          [] role = "current" ->
                 \E index \in 0..(Len(WindowsOfLine(line)) - 1) :
                     /\ SelectsIndex(index, Len(WindowsOfLine(line)), elapsed,
                                     duration, scrollDwellStart, scrollDwellEnd)
                     /\ text = WindowsOfLine(line)[index + 1]

\* C37: in lyric-window mode the slot bound to previous shows the last
\* fitted window of the line before the active one (the blank placeholder
\* when the active line is the first), the slot bound to next the first
\* fitted window of the line after it (the blank placeholder when the active
\* line is the last), and the slot bound to current the scroll-selected
\* window of the active line.
C37_RoleSourcing ==
    (pc = "composed" /\ usesLyricsWindow /\ activeLyric >= 0) =>
        \A field \in {"title", "artist", "album"} :
            RoleShows(fieldMapping[field], composedPayload[field])

\* the second of two lines is active and the first line has two windows:
\* artist, bound to previous, shows the last of them and title, bound to
\* next, is blank
C37_Witness ==
    /\ pc = "composed"
    /\ usesLyricsWindow
    /\ Len(lyrics) = 2
    /\ activeLyric = 1
    /\ lyrics[1].text = <<"M", " ", "i">>
    /\ Len(WindowsOfLine(1)) = 2
    /\ fieldMapping.artist = "previous"
    /\ composedPayload.artist = <<"i">>
    /\ composedPayload.title = <<" ">>

----------------------------------------------------------------------------
(* Claims about the rendering of a session                                 *)

\* C38: the active-line resolution, the window selection and the payload
\* composition of one evaluation use the same timeline and position: the
\* active index is -1 or an index of the timeline in the state, the previous,
\* active and next entries that are read exist, and the windows and the
\* payload are those of that timeline at that position, also after the
\* timeline was replaced.
C38_ConsistentSnapshot ==
    /\ activeLyric \in (0 - 1)..(Len(lyrics) - 1)
    /\ activeLyric = activeLyricIndex(lyrics, currentTimeMs(currentTime))
    /\ activeLyric > 0 => activeLyric \in DOMAIN lyrics
    /\ activeLyric >= 0 => activeLyric + 1 \in DOMAIN lyrics
    /\ (activeLyric >= 0 /\ activeLyric < Len(lyrics) - 1) =>
           activeLyric + 2 \in DOMAIN lyrics
    /\ windowTexts = lyricWindow(lyrics, activeLyric,
                                 lyricWidthLimitPx(lyricWidthScale),
                                 currentTime, scrollDwellStart, scrollDwellEnd)
    /\ (currentMetadata # NullPayload /\ usesLyricsWindow) =>
           \A field \in {"title", "artist", "album"} :
               composedPayload[field] =
                   metadataFieldValueOrPlaceholder(
                       windowTexts[fieldMapping[field]])

\* the timeline that had an active line was replaced by the empty one of a
\* track without lyrics, at a position past the old line's time
C38_Witness ==
    /\ playsStarted = 2
    /\ currentTime = 1000
    /\ currentMetadata # NullPayload
    /\ lyrics = <<>>
    /\ lyricsTrack = 0
    /\ activeLyric = 0 - 1

----------------------------------------------------------------------------
(* Claims about the restore of the playback snapshot                       *)

\* C39: for a saved snapshot whose track is found playTrack is started at
\* most once in a session, for that track at the saved position; no second
\* restore begins while one is in flight, and a scan after the restore never
\* starts the track again.
C39_RestoreAtMostOnce ==
    /\ [](/\ Len(restoreCalls) <= 1
          /\ Cardinality(restorePromises) <= 1
          /\ restorePromises # {} => restoreInFlightRef
          /\ \A k \in DOMAIN restoreCalls :
                 /\ savedPlaybackSnapshotHydrated
                 /\ restoreCalls[k].track = savedPlaybackSnapshot.trackId
                 /\ restoreCalls[k].startTimeSeconds
                        = savedPlaybackSnapshot.positionSeconds)
    /\ [][(restoreInFlightRef \/ restoredSnapshotTrackIdRef # 0)
              => restoreCalls' = restoreCalls]_vars

\* the snapshot's track was restored at the saved position and a later scan
\* no longer lists it
C39_Witness ==
    /\ Len(restoreCalls) = 1
    /\ restoreCalls[1].startTimeSeconds = 2000
    /\ restoredSnapshotTrackIdRef = 2
    /\ restorePromises = {}
    /\ tracks = {1}
====
